---- MODULE Spec2Model ----
(***************************************************************************)
(* A model of the write-ahead journal of andriibeee/iotdemo                *)
(* (pkg/journal): framing, CRC, optional AEAD, segmented storage (file and *)
(* memory backed), the buffered writer, rotation, open-time scan, Sync,    *)
(* Close and Replay under the journal's reader/writer lock.                *)
(*                                                                         *)
(* Bytes are the integers 0..255, byte strings are sequences of bytes.     *)
(* A segment name "%06d.wal" is the sequence of its decimal digits (the    *)
(* fixed suffix ".wal" is left out).                                       *)
(***************************************************************************)
EXTENDS Integers, Sequences, FiniteSets, TLC

\* ------------------------------------------------------------------ bounds

\* The largest value the sequence counter may reach, and the largest number
\* of entries the callers get back (caps the log's length).
MaxSeq == 3
\* The longest batch handed to WriteBatch.
MaxBatch == 2

\* The largest number of Add calls on the ring buffer.
MaxAdds == 5

\* The largest capacity asked of rb.New.
MaxCap == 3

\* The largest number of Sink.Append calls.
MaxAppends == 3

\* The largest number of events given to the deduplicator's handler.
MaxEvents == 5

\* The flushes of the sink that reach the journal, apart from Run's last one.
MaxFlushes == 3

\* The lines of the body of a batch request.
MaxBody == 4

\* The calls of the rate limiter's handler.
MaxLimiterCalls == 4

\* ------------------------------------------------------- program constants

\* New: maxSize == 0 selects 64 MiB.
DefaultMaxSize == 67108864
\* bufio.NewWriter: the buffered writer's default size.
BufSize == 4096
\* cipher.AEAD.NonceSize() of AES-GCM.
NonceSize == 12
\* cipher.AEAD.Overhead() of AES-GCM: the authentication tag.
TagSize == 16

\* ------------------------------------------------------------------- bytes

\* s[from..to) as Go's s[from:to], for 0 <= from <= to <= len(s).
Slice(s, from, to) == SubSeq(s, from + 1, to)

Zeros(n) == [i \in 1..n |-> 0]

RECURSIVE SumBytes(_)
SumBytes(s) == IF s = <<>> THEN 0 ELSE (Head(s) + SumBytes(Tail(s))) % 256

\* binary.BigEndian.PutUint32 / Uint32 (values below 2^31: the model's lengths).
PutUint32(n) ==
    << (n \div 16777216) % 256, (n \div 65536) % 256, (n \div 256) % 256, n % 256 >>

\* A length of 2^31 or more is beyond TLC's integers and reads as the largest
\* of them, "more than any file holds": every use compares it with the bytes
\* left in a file.
Huge == 2147483647

Uint32(b) ==
    IF b[1] >= 128 THEN Huge
    ELSE b[1] * 16777216 + b[2] * 65536 + b[3] * 256 + b[4]

\* binary.BigEndian.PutUint64 / Uint64 (sequence numbers below 2^31).
PutUint64(n) == <<0, 0, 0, 0>> \o PutUint32(n)

Uint64(b) ==
    IF b[1] # 0 \/ b[2] # 0 \/ b[3] # 0 \/ b[4] # 0 THEN Huge
    ELSE Uint32(SubSeq(b, 5, 8))

\* ------------------------------------------------------------------- CRC32
\* hash/crc32.ChecksumIEEE: the reflected CRC-32 with polynomial 0xEDB88320,
\* kept as four bytes <<b3, b2, b1, b0>> (most significant first).

\* Bit k (0 = least significant) of byte a.
Bit(a, k) == (a \div (2 ^ k)) % 2

XorByte(a, b) ==
    ((Bit(a, 0) + Bit(b, 0)) % 2) + 2 * ((Bit(a, 1) + Bit(b, 1)) % 2)
    + 4 * ((Bit(a, 2) + Bit(b, 2)) % 2) + 8 * ((Bit(a, 3) + Bit(b, 3)) % 2)
    + 16 * ((Bit(a, 4) + Bit(b, 4)) % 2) + 32 * ((Bit(a, 5) + Bit(b, 5)) % 2)
    + 64 * ((Bit(a, 6) + Bit(b, 6)) % 2) + 128 * ((Bit(a, 7) + Bit(b, 7)) % 2)

\* The 256 x 256 table of a ^ b, built once as explicit tuples (index + 1).
XorTable ==
    SubSeq([a \in 1..256 |-> SubSeq([b \in 1..256 |-> XorByte(a - 1, b - 1)], 1, 256)], 1, 256)

Xor8(a, b) == XorTable[a + 1][b + 1]

Xor32(x, y) == << Xor8(x[1], y[1]), Xor8(x[2], y[2]), Xor8(x[3], y[3]), Xor8(x[4], y[4]) >>

\* crc32.IEEETable (polynomial 0xEDB88320, reflected): entry i at index i + 1,
\* each entry as four bytes, most significant first.
CrcTable ==
    <<
       <<0, 0, 0, 0>>, <<119, 7, 48, 150>>, <<238, 14, 97, 44>>, <<153, 9, 81, 186>>,
       <<7, 109, 196, 25>>, <<112, 106, 244, 143>>, <<233, 99, 165, 53>>, <<158, 100, 149, 163>>,
       <<14, 219, 136, 50>>, <<121, 220, 184, 164>>, <<224, 213, 233, 30>>, <<151, 210, 217, 136>>,
       <<9, 182, 76, 43>>, <<126, 177, 124, 189>>, <<231, 184, 45, 7>>, <<144, 191, 29, 145>>,
       <<29, 183, 16, 100>>, <<106, 176, 32, 242>>, <<243, 185, 113, 72>>, <<132, 190, 65, 222>>,
       <<26, 218, 212, 125>>, <<109, 221, 228, 235>>, <<244, 212, 181, 81>>, <<131, 211, 133, 199>>,
       <<19, 108, 152, 86>>, <<100, 107, 168, 192>>, <<253, 98, 249, 122>>, <<138, 101, 201, 236>>,
       <<20, 1, 92, 79>>, <<99, 6, 108, 217>>, <<250, 15, 61, 99>>, <<141, 8, 13, 245>>,
       <<59, 110, 32, 200>>, <<76, 105, 16, 94>>, <<213, 96, 65, 228>>, <<162, 103, 113, 114>>,
       <<60, 3, 228, 209>>, <<75, 4, 212, 71>>, <<210, 13, 133, 253>>, <<165, 10, 181, 107>>,
       <<53, 181, 168, 250>>, <<66, 178, 152, 108>>, <<219, 187, 201, 214>>, <<172, 188, 249, 64>>,
       <<50, 216, 108, 227>>, <<69, 223, 92, 117>>, <<220, 214, 13, 207>>, <<171, 209, 61, 89>>,
       <<38, 217, 48, 172>>, <<81, 222, 0, 58>>, <<200, 215, 81, 128>>, <<191, 208, 97, 22>>,
       <<33, 180, 244, 181>>, <<86, 179, 196, 35>>, <<207, 186, 149, 153>>, <<184, 189, 165, 15>>,
       <<40, 2, 184, 158>>, <<95, 5, 136, 8>>, <<198, 12, 217, 178>>, <<177, 11, 233, 36>>,
       <<47, 111, 124, 135>>, <<88, 104, 76, 17>>, <<193, 97, 29, 171>>, <<182, 102, 45, 61>>,
       <<118, 220, 65, 144>>, <<1, 219, 113, 6>>, <<152, 210, 32, 188>>, <<239, 213, 16, 42>>,
       <<113, 177, 133, 137>>, <<6, 182, 181, 31>>, <<159, 191, 228, 165>>, <<232, 184, 212, 51>>,
       <<120, 7, 201, 162>>, <<15, 0, 249, 52>>, <<150, 9, 168, 142>>, <<225, 14, 152, 24>>,
       <<127, 106, 13, 187>>, <<8, 109, 61, 45>>, <<145, 100, 108, 151>>, <<230, 99, 92, 1>>,
       <<107, 107, 81, 244>>, <<28, 108, 97, 98>>, <<133, 101, 48, 216>>, <<242, 98, 0, 78>>,
       <<108, 6, 149, 237>>, <<27, 1, 165, 123>>, <<130, 8, 244, 193>>, <<245, 15, 196, 87>>,
       <<101, 176, 217, 198>>, <<18, 183, 233, 80>>, <<139, 190, 184, 234>>, <<252, 185, 136, 124>>,
       <<98, 221, 29, 223>>, <<21, 218, 45, 73>>, <<140, 211, 124, 243>>, <<251, 212, 76, 101>>,
       <<77, 178, 97, 88>>, <<58, 181, 81, 206>>, <<163, 188, 0, 116>>, <<212, 187, 48, 226>>,
       <<74, 223, 165, 65>>, <<61, 216, 149, 215>>, <<164, 209, 196, 109>>, <<211, 214, 244, 251>>,
       <<67, 105, 233, 106>>, <<52, 110, 217, 252>>, <<173, 103, 136, 70>>, <<218, 96, 184, 208>>,
       <<68, 4, 45, 115>>, <<51, 3, 29, 229>>, <<170, 10, 76, 95>>, <<221, 13, 124, 201>>,
       <<80, 5, 113, 60>>, <<39, 2, 65, 170>>, <<190, 11, 16, 16>>, <<201, 12, 32, 134>>,
       <<87, 104, 181, 37>>, <<32, 111, 133, 179>>, <<185, 102, 212, 9>>, <<206, 97, 228, 159>>,
       <<94, 222, 249, 14>>, <<41, 217, 201, 152>>, <<176, 208, 152, 34>>, <<199, 215, 168, 180>>,
       <<89, 179, 61, 23>>, <<46, 180, 13, 129>>, <<183, 189, 92, 59>>, <<192, 186, 108, 173>>,
       <<237, 184, 131, 32>>, <<154, 191, 179, 182>>, <<3, 182, 226, 12>>, <<116, 177, 210, 154>>,
       <<234, 213, 71, 57>>, <<157, 210, 119, 175>>, <<4, 219, 38, 21>>, <<115, 220, 22, 131>>,
       <<227, 99, 11, 18>>, <<148, 100, 59, 132>>, <<13, 109, 106, 62>>, <<122, 106, 90, 168>>,
       <<228, 14, 207, 11>>, <<147, 9, 255, 157>>, <<10, 0, 174, 39>>, <<125, 7, 158, 177>>,
       <<240, 15, 147, 68>>, <<135, 8, 163, 210>>, <<30, 1, 242, 104>>, <<105, 6, 194, 254>>,
       <<247, 98, 87, 93>>, <<128, 101, 103, 203>>, <<25, 108, 54, 113>>, <<110, 107, 6, 231>>,
       <<254, 212, 27, 118>>, <<137, 211, 43, 224>>, <<16, 218, 122, 90>>, <<103, 221, 74, 204>>,
       <<249, 185, 223, 111>>, <<142, 190, 239, 249>>, <<23, 183, 190, 67>>, <<96, 176, 142, 213>>,
       <<214, 214, 163, 232>>, <<161, 209, 147, 126>>, <<56, 216, 194, 196>>, <<79, 223, 242, 82>>,
       <<209, 187, 103, 241>>, <<166, 188, 87, 103>>, <<63, 181, 6, 221>>, <<72, 178, 54, 75>>,
       <<216, 13, 43, 218>>, <<175, 10, 27, 76>>, <<54, 3, 74, 246>>, <<65, 4, 122, 96>>,
       <<223, 96, 239, 195>>, <<168, 103, 223, 85>>, <<49, 110, 142, 239>>, <<70, 105, 190, 121>>,
       <<203, 97, 179, 140>>, <<188, 102, 131, 26>>, <<37, 111, 210, 160>>, <<82, 104, 226, 54>>,
       <<204, 12, 119, 149>>, <<187, 11, 71, 3>>, <<34, 2, 22, 185>>, <<85, 5, 38, 47>>,
       <<197, 186, 59, 190>>, <<178, 189, 11, 40>>, <<43, 180, 90, 146>>, <<92, 179, 106, 4>>,
       <<194, 215, 255, 167>>, <<181, 208, 207, 49>>, <<44, 217, 158, 139>>, <<91, 222, 174, 29>>,
       <<155, 100, 194, 176>>, <<236, 99, 242, 38>>, <<117, 106, 163, 156>>, <<2, 109, 147, 10>>,
       <<156, 9, 6, 169>>, <<235, 14, 54, 63>>, <<114, 7, 103, 133>>, <<5, 0, 87, 19>>,
       <<149, 191, 74, 130>>, <<226, 184, 122, 20>>, <<123, 177, 43, 174>>, <<12, 182, 27, 56>>,
       <<146, 210, 142, 155>>, <<229, 213, 190, 13>>, <<124, 220, 239, 183>>, <<11, 219, 223, 33>>,
       <<134, 211, 210, 212>>, <<241, 212, 226, 66>>, <<104, 221, 179, 248>>, <<31, 218, 131, 110>>,
       <<129, 190, 22, 205>>, <<246, 185, 38, 91>>, <<111, 176, 119, 225>>, <<24, 183, 71, 119>>,
       <<136, 8, 90, 230>>, <<255, 15, 106, 112>>, <<102, 6, 59, 202>>, <<17, 1, 11, 92>>,
       <<143, 101, 158, 255>>, <<248, 98, 174, 105>>, <<97, 107, 255, 211>>, <<22, 108, 207, 69>>,
       <<160, 10, 226, 120>>, <<215, 13, 210, 238>>, <<78, 4, 131, 84>>, <<57, 3, 179, 194>>,
       <<167, 103, 38, 97>>, <<208, 96, 22, 247>>, <<73, 105, 71, 77>>, <<62, 110, 119, 219>>,
       <<174, 209, 106, 74>>, <<217, 214, 90, 220>>, <<64, 223, 11, 102>>, <<55, 216, 59, 240>>,
       <<169, 188, 174, 83>>, <<222, 187, 158, 197>>, <<71, 178, 207, 127>>, <<48, 181, 255, 233>>,
       <<189, 189, 242, 28>>, <<202, 186, 194, 138>>, <<83, 179, 147, 48>>, <<36, 180, 163, 166>>,
       <<186, 208, 54, 5>>, <<205, 215, 6, 147>>, <<84, 222, 87, 41>>, <<35, 217, 103, 191>>,
       <<179, 102, 122, 46>>, <<196, 97, 74, 184>>, <<93, 104, 27, 2>>, <<42, 111, 43, 148>>,
       <<180, 11, 190, 55>>, <<195, 12, 142, 161>>, <<90, 5, 223, 27>>, <<45, 2, 239, 141>>
    >>

\* One table-driven step: crc = table[(crc ^ b) & 0xff] ^ (crc >> 8).
CrcStep(c, b) ==
    LET t == CrcTable[Xor8(c[4], b) + 1]
    IN  << t[1], Xor8(t[2], c[1]), Xor8(t[3], c[2]), Xor8(t[4], c[3]) >>

\* The loop over the data from index i on, eight bytes a round while eight
\* are left. Each round's value is bound (cv) before the next round reads it.
RECURSIVE CrcUpdate(_, _, _)
CrcUpdate(c, data, i) ==
    IF i > Len(data) THEN c
    ELSE IF i + 7 <= Len(data)
    THEN CHOOSE r \in { LET c1 == CrcStep(cv, data[i])
                            c2 == CrcStep(c1, data[i + 1])
                            c3 == CrcStep(c2, data[i + 2])
                            c4 == CrcStep(c3, data[i + 3])
                            c5 == CrcStep(c4, data[i + 4])
                            c6 == CrcStep(c5, data[i + 5])
                            c7 == CrcStep(c6, data[i + 6])
                            c8 == CrcStep(c7, data[i + 7])
                        IN  CrcUpdate(c8, data, i + 8) : cv \in {c} } : TRUE
    ELSE CHOOSE r \in { CrcUpdate(CrcStep(cv, data[i]), data, i + 1) : cv \in {c} } : TRUE

ChecksumIEEE(data) ==
    Xor32(CrcUpdate(<<255, 255, 255, 255>>, data, 1), <<255, 255, 255, 255>>)

\* -------------------------------------------------------------------- AEAD
\* AESGCMEncryptor. The cipher itself (crypto/aes, crypto/cipher) is a
\* library: it is modelled by a keyed byte mask and a 16-byte tag over the
\* nonce and the plaintext, which keep what the journal relies on: the
\* sealed text is NonceSize + len + TagSize bytes long, Open inverts Seal
\* under the same nonce, and Open fails when the tag does not match.

\* The nonces crypto/rand delivers. The journal never inspects a nonce, so one
\* value stands for every result of rand.Read.
Nonces == { [i \in 1..NonceSize |-> 3] }

KeyStream(nonce, i) == (nonce[1] * 31 + i * 17 + 89) % 256

Tag(nonce, plain) ==
    LET t == (SumBytes(plain) + SumBytes(nonce) + Len(plain)) % 256
    IN  [j \in 1..TagSize |-> (t + 13 * j) % 256]

\* aead.Seal(nonce, nonce, plaintext, nil): nonce || ciphertext || tag.
Encrypt(plain, nonce) ==
    nonce \o [i \in 1..Len(plain) |-> (plain[i] + KeyStream(nonce, i)) % 256]
          \o Tag(nonce, plain)

\* aead.Open(nil, nonce, ciphertext, nil).
AeadOpen(nonce, sealed) ==
    IF Len(sealed) < TagSize THEN [err |-> "AuthFail", data |-> <<>>]
    ELSE LET n     == Len(sealed) - TagSize
             plain == [i \in 1..n |-> (sealed[i] + 256 - KeyStream(nonce, i)) % 256]
         IN  IF Tag(nonce, plain) = SubSeq(sealed, n + 1, Len(sealed))
             THEN [err |-> "", data |-> plain]
             ELSE [err |-> "AuthFail", data |-> <<>>]

Decrypt(ciphertext) ==
    IF Len(ciphertext) < NonceSize THEN [err |-> "ErrCiphertextShort", data |-> <<>>]
    ELSE AeadOpen(SubSeq(ciphertext, 1, NonceSize),
                  SubSeq(ciphertext, NonceSize + 1, Len(ciphertext)))

\* ------------------------------------------------------------------ framing

\* Journal.write up to the encryptor: seq | keyLen | key | valLen | value.
EntryBody(e) ==
    PutUint64(e.Seq) \o PutUint32(Len(e.Key)) \o e.Key
                     \o PutUint32(Len(e.Value)) \o e.Value

\* Journal.write: the bytes handed to the buffered writer for entry e
\* (enc: an encryptor is set; nonce: the nonce Encrypt draws).
Frame(e, enc, nonce) ==
    LET data == IF enc THEN Encrypt(EntryBody(e), nonce) ELSE EntryBody(e)
    IN  PutUint32(Len(data)) \o ChecksumIEEE(data) \o data

\* io.ReadFull of n bytes at offset pos of a file of length len:
\* "" (read), "EOF" (no byte left) or "ErrUnexpectedEOF" (some, not all).
ReadFull(len, pos, n) ==
    IF n = 0 THEN ""
    ELSE IF len - pos = 0 THEN "EOF"
    ELSE IF len - pos < n THEN "ErrUnexpectedEOF"
    ELSE ""

\* Journal.read after the checksum: decrypt, then decode the entry body.
\* A body too short for its own fields makes the Go slice expressions panic.
DecodeBody(data) ==
    IF Len(data) < 12 THEN [err |-> "panic"]
    ELSE LET keyLen == Uint32(SubSeq(data, 9, 12))
         IN  IF keyLen = Huge \/ 12 + keyLen > Len(data) \/ 12 + keyLen + 4 > Len(data)
             THEN [err |-> "panic"]
             ELSE LET valLen == Uint32(SubSeq(data, 13 + keyLen, 16 + keyLen))
                      rest   == SubSeq(data, 17 + keyLen, Len(data))
                  IN  IF valLen = Huge THEN [err |-> "panic"]
                      ELSE [err   |-> "",
                            entry |-> [Key   |-> SubSeq(data, 13, 12 + keyLen),
                                       Value |-> [i \in 1..valLen |->
                                                    IF i <= Len(rest) THEN rest[i] ELSE 0],
                                       Seq   |-> Uint64(SubSeq(data, 1, 8))]]

\* read that compares the low 24 bits of the checksum only.
readCrcLow24(b, pos, enc) ==
    IF ReadFull(Len(b), pos, 4) # "" THEN [err |-> ReadFull(Len(b), pos, 4)]
    ELSE IF ReadFull(Len(b), pos + 4, 4) # "" THEN [err |-> ReadFull(Len(b), pos + 4, 4)]
    ELSE LET length == Uint32(Slice(b, pos, pos + 4))
             crc    == Slice(b, pos + 5, pos + 8)
         IN  IF ReadFull(Len(b), pos + 8, length) # ""
             THEN [err |-> ReadFull(Len(b), pos + 8, length)]
             ELSE LET data == Slice(b, pos + 8, pos + 8 + length)
                  IN  IF Tail(ChecksumIEEE(data)) # crc THEN [err |-> "ErrBadChecksum"]
                      ELSE LET plain == IF enc THEN Decrypt(data) ELSE [err |-> "", data |-> data]
                           IN  IF plain.err # "" THEN [err |-> plain.err]
                               ELSE LET d == DecodeBody(plain.data)
                                    IN  IF d.err # "" THEN [err |-> d.err]
                                        ELSE [err |-> "", entry |-> d.entry,
                                              next |-> pos + 8 + length]

\* Journal.read at offset pos of the bytes b: the entry and the offset after
\* it, or the error.
read(b, pos, enc) ==
    IF ReadFull(Len(b), pos, 4) # "" THEN [err |-> ReadFull(Len(b), pos, 4)]
    ELSE IF ReadFull(Len(b), pos + 4, 4) # "" THEN [err |-> ReadFull(Len(b), pos + 4, 4)]
    ELSE LET length == Uint32(Slice(b, pos, pos + 4))
             crc    == Slice(b, pos + 4, pos + 8)
         IN  IF ReadFull(Len(b), pos + 8, length) # ""
             THEN [err |-> ReadFull(Len(b), pos + 8, length)]
             ELSE LET data == Slice(b, pos + 8, pos + 8 + length)
                  IN  IF ChecksumIEEE(data) # crc THEN [err |-> "ErrBadChecksum"]
                      ELSE LET plain == IF enc THEN Decrypt(data) ELSE [err |-> "", data |-> data]
                           IN  IF plain.err # "" THEN [err |-> plain.err]
                               ELSE LET d == DecodeBody(plain.data)
                                    IN  IF d.err # "" THEN [err |-> d.err]
                                        ELSE [err |-> "", entry |-> d.entry,
                                              next |-> pos + 8 + length]

\* The read loop shared by scan and Replay: the entries decoded from offset
\* pos on, and the error that ended the loop ("EOF" at a clean end).
RECURSIVE ReadLoop(_, _, _, _)
ReadLoop(b, pos, enc, acc) ==
    CHOOSE res \in
        { IF r.err # "" THEN [entries |-> acc, err |-> r.err]
          ELSE ReadLoop(b, r.next, enc, Append(acc, r.entry))
          : r \in { read(b, pos, enc) } } : TRUE

\* ------------------------------------------------------------ segment names

RECURSIVE Digits(_)
Digits(n) == IF n < 10 THEN <<n>> ELSE Digits(n \div 10) \o <<n % 10>>

\* fmt.Sprintf("%06d.wal", n): at least six digits, zero padded.
segmentName(n) ==
    LET d == Digits(n) IN IF Len(d) < 6 THEN Zeros(6 - Len(d)) \o d ELSE d

\* fmt.Sscanf(name, "%d.wal", &n).
RECURSIVE ScanInt(_, _)
ScanInt(name, acc) ==
    IF name = <<>> THEN acc ELSE ScanInt(Tail(name), acc * 10 + Head(name))

\* Go's string order on names: digits compare as characters, and a name that
\* is a proper prefix of another sorts first ('.' is below every digit).
RECURSIVE StrLess(_, _)
StrLess(a, b) ==
    IF a = <<>> THEN b # <<>>
    ELSE IF b = <<>> THEN FALSE
    ELSE IF Head(a) # Head(b) THEN Head(a) < Head(b)
    ELSE StrLess(Tail(a), Tail(b))

\* The listed names in descending order.
RECURSIVE SortStringsDesc(_)
SortStringsDesc(S) ==
    IF S = {} THEN <<>>
    ELSE LET m == CHOOSE a \in S : \A c \in S \ {a} : StrLess(c, a)
         IN  <<m>> \o SortStringsDesc(S \ {m})

\* sort.Strings over the listed names.
RECURSIVE SortStrings(_)
SortStrings(S) ==
    IF S = {} THEN <<>>
    ELSE LET m == CHOOSE a \in S : \A c \in S \ {a} : StrLess(a, c)
         IN  <<m>> \o SortStrings(S \ {m})

\* openLatest: the highest segment number among the listed names.
Latest(S) ==
    LET nums == { ScanInt(nm, 0) : nm \in S } \cup {0}
    IN  CHOOSE n \in nums : \A k \in nums : k <= n

\* ------------------------------------------------------------- ring buffer

\* A RingBuffer before rb.New has made it.
NoRing == [buf |-> <<>>, pos |-> 0, len |-> 0]

\* No All() iteration has run since the last Add.
NoIter == [pc |-> "idle", i |-> 0, out |-> <<>>, take |-> 0, snap |-> NoRing,
           stopped |-> FALSE]

\* rb.New(capacity): make([]T, max(capacity, 1)), every slot the zero value.
NewRing(capacity) ==
    [buf |-> [k \in 1..(IF capacity > 1 THEN capacity ELSE 1) |-> 0], pos |-> 0, len |-> 0]

\* An Add that returns the newest held value.
AddDropNewest(r, val) ==
    LET c == Len(r.buf)
        wasFull == r.len = c
    IN  [rb      |-> [buf |-> [r.buf EXCEPT ![r.pos + 1] = val],
                      pos |-> (r.pos + 1) % c,
                      len |-> IF wasFull THEN r.len ELSE r.len + 1],
         dropped |-> r.buf[((r.pos - 1 + c) % c) + 1],
         wasFull |-> wasFull]

\* An Add that counts every value.
AddAlwaysCounts(r, val) ==
    LET c == Len(r.buf)
    IN  [rb      |-> [buf |-> [r.buf EXCEPT ![r.pos + 1] = val],
                      pos |-> (r.pos + 1) % c,
                      len |-> r.len + 1],
         dropped |-> r.buf[r.pos + 1],
         wasFull |-> r.len = c]

\* RingBuffer.Add(val) between Lock and Unlock; buf[k + 1] is Go's buf[k].
AddTo(r, val) ==
    LET c == Len(r.buf)
        wasFull == r.len = c
    IN  [rb      |-> [buf |-> [r.buf EXCEPT ![r.pos + 1] = val],
                      pos |-> (r.pos + 1) % c,
                      len |-> IF wasFull THEN r.len ELSE r.len + 1],
         dropped |-> r.buf[r.pos + 1],
         wasFull |-> wasFull]

\* An iteration that walks forwards from pos.
idxForward(r, i) ==
    (r.pos + i) % Len(r.buf)

\* The slot the i-th round of All() reads: walk backwards from pos-1.
idxAt(r, i) ==
    (r.pos - 1 - i + Len(r.buf)) % Len(r.buf)

\* A lock that Add takes whoever holds it.
rbLockFree(m) ==
    TRUE

\* A lock that Add takes when one reader holds it: the reader's shared lock
\* is upgraded.
rbLockUpgrade(m) ==
    m <= 1

\* rb.mu.Lock() of Add returns: no iteration holds the shared lock (m is the
\* number of readers).
rbLock(m) ==
    m = 0

\* An iteration that keeps the lock when it returns.
AllReturnHolding(m) ==
    m

\* The deferred rb.mu.RUnlock() of All().
AllReturn(m) ==
    m - 1

\* ------------------------------------------------------------------- event

\* event(sensor, val, ts) of the tests: an Event without an idempotency key.
event(sensor, val, ts) ==
    [IdempotencyID |-> "", Sensor |-> sensor, Value |-> val, UnixTimestamp |-> ts]

\* Event.MarshalMsg: the serialized event.
MarshalMsg(ev) ==
    << Len(ev.Sensor) >> \o ev.Sensor \o << ev.Value % 256, ev.UnixTimestamp % 256 >>

\* -------------------------------------------------------------------- sink

\* The decimal digits of n >= 0.
RECURSIVE digits(_)
digits(n) ==
    IF n < 10 THEN << 48 + n >> ELSE digits(n \div 10) \o << 48 + (n % 10) >>

\* strconv.FormatInt(i, 10)
FormatInt(i) ==
    IF i < 0 THEN << 45 >> \o digits(0 - i) ELSE digits(i)

\* Sink.fmtKey(sensor, ts): "sensor_" sensor "{ts=" ts "}"
fmtKey(sensor, ts) ==
    << 115, 101, 110, 115, 111, 114, 95 >> \o sensor \o << 123, 116, 115, 61 >>
        \o FormatInt(ts) \o << 125 >>

\* The journal.Entry made of an event: its key and the serialized event.
Entry(ev) ==
    [Key |-> fmtKey(ev.Sensor, ev.UnixTimestamp), Value |-> MarshalMsg(ev)]

\* rb.New[entity.Event](capacity): every slot the zero Event.
NewEventRing(capacity) ==
    [NewRing(capacity) EXCEPT !.buf = [k \in DOMAIN @ |-> event(<<>>, 0, 0)]]

\* A Sink before sink.New has made it.
NoSink == [journal |-> FALSE, buf |-> NoRing, handler |-> <<>>, bufSize |-> 0,
           middlewares |-> <<>>, closed |-> FALSE]

\* middlewares[i](h): a Handler that runs m with h as its next. A Handler is
\* the sequence of the middlewares it runs, outermost first; the empty
\* sequence is s.appendToBuffer.
Wrap(m, h) ==
    << m >> \o h

RECURSIVE forwardLoop(_, _, _)
forwardLoop(middlewares, i, h) ==
    IF i > Len(middlewares) THEN h
    ELSE forwardLoop(middlewares, i + 1, Wrap(middlewares[i], h))

\* A chain built from the first middleware to the last.
buildChainForward(middlewares) ==
    forwardLoop(middlewares, 1, <<>>)

\* The loop of buildChain: i runs from the last middleware down to the first.
RECURSIVE buildChainLoop(_, _, _)
buildChainLoop(middlewares, i, h) ==
    IF i < 1 THEN h
    ELSE buildChainLoop(middlewares, i - 1, Wrap(middlewares[i], h))

\* Sink.buildChain(middlewares)
buildChain(middlewares) ==
    buildChainLoop(middlewares, Len(middlewares), <<>>)

\* Whether middleware m calls next for ev: "pass" always does, "stop" returns
\* nil without it, "dropNegative" calls it for values that are not negative.
CallsNext(m, ev) ==
    \/ m.kind = "pass"
    \/ m.kind = "dropNegative" /\ ev.Value >= 0

\* s.handler(ev): each handler records its name when it is invoked; reached
\* tells whether s.appendToBuffer was.
RECURSIVE Invoke(_, _, _)
Invoke(h, ev, ord) ==
    IF h = <<>> THEN [order |-> Append(ord, "appendToBuffer"), reached |-> TRUE]
    ELSE IF CallsNext(Head(h), ev)
         THEN Invoke(Tail(h), ev, Append(ord, Head(h).name))
         ELSE [order |-> Append(ord, Head(h).name), reached |-> FALSE]

\* An Append that checks the journal before the closed flag.
appendCheckNilFirst(s) ==
    IF ~s.journal THEN "ErrJournalIsNil"
    ELSE IF s.closed THEN "ErrSinkClosed"
    ELSE ""

\* The checks Sink.Append makes before it invokes the handler: the error it
\* returns, "" when it goes on.
appendCheck(s) ==
    IF s.closed THEN "ErrSinkClosed"
    ELSE IF ~s.journal THEN "ErrJournalIsNil"
    ELSE ""

\* A buffer-append that lets the evicted event go.
appendToBufferLossy(s, ev, jerr) ==
    [sink |-> [s EXCEPT !.buf = AddTo(s.buf, ev).rb], calls |-> <<>>, err |-> ""]

\* Sink.appendToBuffer(ev): buf.Add(ev), and journal.Write of the evicted
\* event when the buffer was full; jerr is what that Write returns.
appendToBuffer(s, ev, jerr) ==
    LET r == AddTo(s.buf, ev)
    IN  [sink  |-> [s EXCEPT !.buf = r.rb],
         calls |-> IF r.wasFull
                   THEN << [op |-> "Write", evs |-> << r.dropped >>,
                            entries |-> << Entry(r.dropped) >>] >>
                   ELSE <<>>,
         err   |-> IF r.wasFull THEN jerr ELSE ""]

\* The loop of flush over s.buf.All(): the events held, newest first.
RECURSIVE flushBatch(_, _)
flushBatch(r, i) ==
    IF i >= r.len THEN <<>>
    ELSE << r.buf[idxAt(r, i) + 1] >> \o flushBatch(r, i + 1)

\* A flush that empties the buffer it has submitted.
flushAndDrain(s, jerr) ==
    IF ~s.journal
    THEN [sink |-> s, calls |-> <<>>, err |-> "ErrJournalIsNil"]
    ELSE LET evs == flushBatch(s.buf, 0)
         IN  [sink  |-> [s EXCEPT !.buf = NewEventRing(Len(s.buf.buf))],
              calls |-> << [op |-> "WriteBatch", evs |-> evs,
                            entries |-> [i \in 1..Len(evs) |-> Entry(evs[i])]] >>,
              err   |-> jerr]

\* Sink.flush(): one journal.WriteBatch of the entries made of the events
\* held; jerr is what WriteBatch returns.
flush(s, jerr) ==
    IF ~s.journal
    THEN [sink |-> s, calls |-> <<>>, err |-> "ErrJournalIsNil"]
    ELSE LET evs == flushBatch(s.buf, 0)
         IN  [sink  |-> s,
              calls |-> << [op |-> "WriteBatch", evs |-> evs,
                            entries |-> [i \in 1..Len(evs) |-> Entry(evs[i])]] >>,
              err   |-> jerr]

\* No Run call has been made.
NoRun == [pc |-> "none", cancelled |-> FALSE, err |-> "", ticks |-> 0, finals |-> 0]

\* A cancellation branch that returns the context's error whatever the flush
\* returned.
runDoneCtxErr(s, jerr) ==
    LET f == flush([s EXCEPT !.closed = TRUE], jerr)
    IN  [sink |-> f.sink, calls |-> f.calls, err |-> "context.Canceled"]

\* The branch of Run's select for <-ctx.Done(): closed.Store(true), flush(),
\* and the error Run returns.
runDone(s, jerr) ==
    LET f == flush([s EXCEPT !.closed = TRUE], jerr)
    IN  [sink |-> f.sink, calls |-> f.calls,
         err  |-> IF f.err # "" THEN f.err ELSE "context.Canceled"]

\* ------------------------------------------------------------ deduplicator

\* No caller is inside Append and no Append has returned nil.
NoAppends == [calls |-> [c \in {1, 2} |-> [pc |-> "idle"]], accepted |-> {}]

\* No Append has been made on a sink behind the deduplicator.
NoChain == [accepted |-> {}, key |-> ""]

\* The idempotency keys of the events; "" is an event without one.
DedupKeys == {"", "a", "b", "c"}

\* A Deduplicator before NewDeduplicator has made it.
NoDedup == [made |-> FALSE, started |-> FALSE, m |-> {}, count |-> 0, interval |-> 0]

\* The sweep goroutine between two ticks.
NoSweep == [pc |-> "idle", todo |-> {}, visited |-> {}, began |-> {}]

\* No call of the handler has returned yet.
NoDret == [key |-> "", err |-> "none", forwarded |-> FALSE, afterSweep |-> FALSE]

\* A handler that stores every key it is given.
StoreAlways(m, key) ==
    [m |-> m \cup {key}, loaded |-> FALSE]

\* sync.Map.LoadOrStore(key, struct{}{}), one atomic step.
LoadOrStore(m, key) ==
    [m |-> m \cup {key}, loaded |-> key \in m]

\* A Delete that removes nothing.
DeleteNothing(m, key) ==
    m

\* sync.Map.Delete(key)
Delete(m, key) ==
    m \ {key}

\* -------------------------------------------------------------- transport

\* No request has reached the server.
NoRequest == [pc |-> "idle", body |-> <<>>, events |-> <<>>, i |-> 0, status |-> 0]

\* The loop of handleBatch over scanner.Scan(): empty lines are skipped, a
\* line that json.Unmarshal rejects ends the request; the events parsed from
\* line k on, after evs.
RECURSIVE scanLines(_, _, _)
scanLines(body, k, evs) ==
    IF k > Len(body) THEN [ok |-> TRUE, events |-> evs]
    ELSE IF body[k].kind = "empty" THEN scanLines(body, k + 1, evs)
    ELSE IF body[k].kind = "bad" THEN [ok |-> FALSE, events |-> evs]
    ELSE scanLines(body, k + 1, Append(evs, body[k].ev))

\* A batch loop that goes on after every error.
afterAppendGoOn(err) ==
    [stop |-> FALSE, status |-> 0]

\* What the loop of handleBatch does with the error sink.Append returned: go
\* on, or stop with a status.
afterAppend(err) ==
    IF err = "" \/ err = "ErrDuplicate" THEN [stop |-> FALSE, status |-> 0]
    ELSE IF err = "ErrRateLimited" THEN [stop |-> TRUE, status |-> 429]
    ELSE [stop |-> TRUE, status |-> 500]

\* ------------------------------------------------------------ rate limiter

\* Rates and tokens are counted in halves of a byte: bytesPerSec is a float64
\* and the bucket holds fractions of a token.
Scale == 2

\* Event.Msgsize(): the byte count of the serialized event.
Msgsize(ev) ==
    Len(MarshalMsg(ev))

\* A RateLimiter before NewRateLimiter has made it.
NoLimiter == [made |-> FALSE, limit |-> 0, burst |-> 0, tokens |-> 0, dropped |-> 0]

\* No call of the handler has returned yet.
NoLret == [n |-> 0, err |-> "none", forwarded |-> FALSE]

\* rate.NewLimiter(rate.Limit(bytesPerSec), int(bytesPerSec)): the burst is
\* the rate truncated to an integer, and the bucket is full at the first
\* call. bytesPerSec is given in halves.
NewLimiter(bytesPerSec) ==
    [made |-> TRUE, limit |-> bytesPerSec, burst |-> bytesPerSec \div Scale,
     tokens |-> (bytesPerSec \div Scale) * Scale, dropped |-> 0]

\* Limiter.advance: the tokens after d halves have flowed in, at most burst.
advance(lim, d) ==
    IF lim.tokens + d > lim.burst * Scale THEN lim.burst * Scale ELSE lim.tokens + d

\* A limiter that grants whatever is asked while the bucket is not empty.
AllowNOverdraw(lim, n) ==
    [ok |-> lim.tokens > 0,
     tokens |-> IF lim.tokens > 0 THEN lim.tokens - n * Scale ELSE lim.tokens]

\* Limiter.AllowN(now, n): grants n tokens when n <= burst and the bucket
\* holds them now, and takes them; takes nothing otherwise.
AllowN(lim, n) ==
    LET ok == n <= lim.burst /\ lim.tokens >= n * Scale
    IN  [ok |-> ok, tokens |-> IF ok THEN lim.tokens - n * Scale ELSE lim.tokens]

\* ---------------------------------------------------------------- the state

VARIABLES
    storageKind,  \* "file" (FileStorage) or "mem" (MemStorage)
    files,        \* Storage: segment name -> the bytes stored under it
    closed,       \* MemStorage: the names whose memFile.closed is set
    encryptor,    \* Journal.encryptor is set (the option given to every New)
    jstate,       \* "none": no journal instance; "open": New has returned one
    current,      \* Journal.current
    writer,       \* Journal.writer: the bufio.Writer's buffered bytes and sticky error
    seq,          \* Journal.seq
    size,         \* Journal.size
    maxSize,      \* Journal.maxSize
    segment,      \* Journal.segment
    mu,           \* Journal.mu: the number of readers holding the shared lock
    rp,           \* the Replay call in progress, or its result until the next call
    ret,          \* what the last New / Write / WriteBatch / Sync / Close returned
    log,          \* history: the entries successful Write/WriteBatch calls returned, in order
    firstInstance, \* history: no New has been called on a non-empty storage
    synced,       \* history: "clean": every entry in log was followed by a Sync call
                  \*   before its instance was closed; "dirty": entries were returned since
                  \*   the live instance's last Sync call; "tainted": an instance was
                  \*   closed while dirty
    fault,        \* history: the damage done to the storage from outside, if any
    owner,        \* Journal.mu: the caller holding the exclusive lock, 0 when free
    calls,        \* per caller: the WriteBatch call it is inside, if any
    partial,      \* history: the entries the last failed WriteBatch had written, with
                  \*   the sequences it gave them, before the entry that failed
    unsynced,     \* history: the entries returned by the live instance since its last
                  \*   Sync that returned nil
    durable,      \* history: the entries returned before a Sync that returned nil
    rb,           \* RingBuffer: buf, pos, len; buf is empty until rb.New has run
    rbmu,         \* RingBuffer.mu: the number of readers holding the shared lock
    requested,    \* history: the capacity rb.New was called with
    added,        \* history: the values given to Add, in order
    addRet,       \* what the last Add returned
    iter,         \* the All() iteration in progress, or its result until the next
                  \*   Add or iteration
    sink,         \* Sink: journal (non-nil), buf, handler, bufSize, middlewares, closed
    order,        \* history: the handlers the last Append invoked, in order
    jcalls,       \* history: the calls made on the sink's Journal
    events,       \* history: the events Append was called with
    sret,         \* what the last call on the sink returned
    run,          \* the Run call: whether it is running or has returned, whether its
                  \*   context is cancelled, what it returned, and the flushes it made
                  \*   on a tick and after it marked the sink closed
    dedup,        \* Deduplicator: m (the keys in the sync.Map), count, interval; made
                  \*   and started tell whether NewDeduplicator and Start have run
    sweep,        \* the sweep goroutine: idle between ticks, or inside Range
    dcalls,       \* per caller: the call of the deduplicator's handler it is inside
    dret,         \* what the call of the handler that returned last returned
    received,     \* history: the number of events the next handler was called with
    tally,        \* history: per key, the events let through (for a non-empty key:
                  \*   those that stored it) and the events rejected since the key was
                  \*   last deleted
    swept,        \* history: the keys a sweep deleted that were not stored since
    nevents,      \* history: the number of calls of the handler that have begun
    anySweep,     \* history: a sweep has begun
    rl,           \* RateLimiter: the limiter's limit, burst and tokens, DroppedCounter;
                  \*   made tells whether NewRateLimiter has run
    lcalls,       \* per caller: the call of the rate limiter's handler it is inside
    lret,         \* what the call of the handler that returned last returned
    passed,       \* history: the number of events the next handler was called with
    lbegun,       \* history: the number of calls of the handler that have begun
    dec,          \* the last AESGCMEncryptor.Decrypt call: its input and what it returned
    srv,          \* the request Server.handleBatch is handling or has handled last: its
                  \*   body, the events parsed, the place in the loop, the status set
    scalls,       \* history: the calls of that request on the server's Sink, in order
    inflight,     \* per caller: the Append call it is inside, after the checks and
                  \* before the handler; history: the events whose Append returned nil
    chain,        \* history of the chain dedup -> rate limiter -> buffer-append: the
                  \* keys of the events Append accepted, and the key of the last event
    broke         \* history: the number of values added when an iteration was last
                  \*   ended early by its consumer; -1: none was

vars == << storageKind, files, closed, encryptor, jstate, current, writer, seq, size,
           maxSize, segment, mu, rp, ret, log, firstInstance, synced, fault,
           owner, calls, partial, unsynced, durable,
           rb, rbmu, requested, added, addRet, iter, broke,
           sink, order, jcalls, events, sret, run,
           dedup, sweep, dcalls, dret, received, tally, swept, nevents, anySweep,
           rl, lcalls, lret, passed, lbegun, dec, srv, scalls, chain,
           inflight >>

\* The journal, its storage and its callers.
journalVars == << storageKind, files, closed, encryptor, jstate, current, writer, seq, size,
                  maxSize, segment, mu, rp, ret, log, firstInstance, synced, fault,
                  owner, calls, partial, unsynced, durable >>

\* The ring buffer and its callers.
ringVars == << rb, rbmu, requested, added, addRet, iter, broke >>

\* The sink and its callers.
sinkVars == << sink, order, jcalls, events, sret, run >>

\* The deduplicator, its sweep and its callers.
dedupVars == << dedup, sweep, dcalls, dret, received, tally, swept, nevents, anySweep >>

\* The rate limiter and its callers.
limiterVars == << rl, lcalls, lret, passed, lbegun >>

\* The callers of the encryptor outside the journal.
cipherVars == << dec >>

\* The transport server and its Sink.
serverVars == << srv, scalls >>

chainVars == << chain >>

appendVars == << inflight >>

\* What lies outside the journal.
outside == << ringVars, sinkVars, dedupVars, limiterVars, cipherVars, serverVars, chainVars,
       appendVars >>

\* What lies outside the ring buffer, the sink, the deduplicator, the rate
\* limiter.
exceptRing ==
    << journalVars, sinkVars, dedupVars, limiterVars, cipherVars, serverVars, chainVars,
       appendVars >>

exceptSink ==
    << journalVars, ringVars, dedupVars, limiterVars, cipherVars, serverVars, chainVars,
       appendVars >>

exceptDedup ==
    << journalVars, ringVars, sinkVars, limiterVars, cipherVars, serverVars, chainVars,
       appendVars >>

exceptLimiter ==
    << journalVars, ringVars, sinkVars, dedupVars, cipherVars, serverVars, chainVars,
       appendVars >>

exceptCipher ==
    << journalVars, ringVars, sinkVars, dedupVars, limiterVars, serverVars, chainVars,
       appendVars >>

exceptServer ==
    << journalVars, ringVars, sinkVars, dedupVars, limiterVars, cipherVars, chainVars,
       appendVars >>

\* The variables the journal's single-step actions leave alone.
exceptAppend ==
    << journalVars, ringVars, dedupVars, limiterVars, cipherVars, serverVars, chainVars >>

beside == << owner, calls, outside >>

\* The journal and its storage as one value, for the operators below.
J == [ kind |-> storageKind, files |-> files, closed |-> closed, enc |-> encryptor,
       current |-> current, writer |-> writer, seq |-> seq, size |-> size,
       maxSize |-> maxSize, segment |-> segment ]

\* bufio.NewWriter(wc)
NewWriter == [buf |-> <<>>, err |-> ""]

\* &Journal{storage: storage, maxSize: maxSize} with the options applied.
NewJournal(kind, fl, cl, enc, ms) ==
    [ kind |-> kind, files |-> fl, closed |-> cl, enc |-> enc, current |-> <<>>,
      writer |-> NewWriter, seq |-> 0, size |-> 0, maxSize |-> ms, segment |-> 0 ]

\* ------------------------------------------------------- storage and bufio

\* The error of a Write on the handle of j.current: a memWriter refuses when
\* its memFile is closed; an os.File handle takes the bytes.
HandleWriteErr(j) ==
    IF j.kind = "mem" /\ j.current \in j.closed THEN "ErrClosed" ELSE ""

\* A Flush that reports success and writes nothing.
FlushNothing(j) ==
    [j |-> j, err |-> ""]

\* bufio.Writer.Flush
Flush(j) ==
    IF j.writer.err # "" THEN [j |-> j, err |-> j.writer.err]
    ELSE IF j.writer.buf = <<>> THEN [j |-> j, err |-> ""]
    ELSE IF HandleWriteErr(j) # ""
         THEN [j |-> [j EXCEPT !.writer.err = HandleWriteErr(j)], err |-> HandleWriteErr(j)]
    ELSE [j   |-> [j EXCEPT !.files[j.current] = @ \o j.writer.buf, !.writer.buf = <<>>],
          err |-> ""]

\* bufio.Writer.Write(p): n is the number of bytes accepted.
RECURSIVE BufWrite(_, _, _)
BufWrite(j, p, nn) ==
    IF Len(p) > BufSize - Len(j.writer.buf) /\ j.writer.err = ""
    THEN IF j.writer.buf = <<>>
         THEN \* large write, empty buffer: straight to the handle
              IF HandleWriteErr(j) # ""
              THEN [j |-> [j EXCEPT !.writer.err = HandleWriteErr(j)], n |-> nn,
                    err |-> HandleWriteErr(j)]
              ELSE [j |-> [j EXCEPT !.files[j.current] = @ \o p], n |-> nn + Len(p),
                    err |-> ""]
         ELSE LET k == BufSize - Len(j.writer.buf)
                  f == Flush([j EXCEPT !.writer.buf = @ \o SubSeq(p, 1, k)])
              IN  BufWrite(f.j, SubSeq(p, k + 1, Len(p)), nn + k)
    ELSE IF j.writer.err # "" THEN [j |-> j, n |-> nn, err |-> j.writer.err]
    ELSE [j |-> [j EXCEPT !.writer.buf = @ \o p], n |-> nn + Len(p), err |-> ""]

\* closer.Close() on the handle of j.current: memWriter.Close marks the
\* memFile itself closed; closing an os.File ends that handle only.
CloseHandle(j) ==
    IF j.kind = "mem" THEN [j EXCEPT !.closed = @ \cup {j.current}] ELSE j

\* Storage.Create(name) and the fields newSegment sets after it.
Created(j, n) ==
    [j EXCEPT !.files = [nm \in DOMAIN j.files \cup {segmentName(n)} |->
                            IF nm \in DOMAIN j.files THEN j.files[nm] ELSE <<>>],
              !.current = segmentName(n), !.writer = NewWriter, !.size = 0]

\* ------------------------------------------------------------- the journal

\* Journal.newSegment
newSegment(j) ==
    LET f == IF j.current = <<>> THEN [j |-> j, err |-> ""] ELSE Flush(j)
    IN  IF f.err # "" THEN f
        ELSE LET c == IF j.current = <<>> THEN f.j ELSE CloseHandle(f.j)
                 n == c.segment + 1
             IN  IF segmentName(n) \in DOMAIN c.files
                 THEN [j |-> [c EXCEPT !.segment = n], err |-> "file exists"]
                 ELSE [j |-> Created([c EXCEPT !.segment = n], n), err |-> ""]

\* Journal.scan: the largest sequence among the entries decoded from the
\* segment, or the error that is not a clean end of file.
RECURSIVE MaxSeqOf(_, _)
MaxSeqOf(entries, m) ==
    IF entries = <<>> THEN m
    ELSE MaxSeqOf(Tail(entries), IF Head(entries).Seq > m THEN Head(entries).Seq ELSE m)

\* scan that takes every read error for the end of the segment.
scanLenient(j, name) ==
    IF name \notin DOMAIN j.files THEN [j |-> j, err |-> "file not found"]
    ELSE LET r == ReadLoop(j.files[name], 0, j.enc, <<>>)
         IN  [j |-> [j EXCEPT !.seq = MaxSeqOf(r.entries, j.seq)], err |-> ""]

scan(j, name) ==
    IF name \notin DOMAIN j.files THEN [j |-> j, err |-> "file not found"]
    ELSE LET r == ReadLoop(j.files[name], 0, j.enc, <<>>)
         IN  [j   |-> [j EXCEPT !.seq = MaxSeqOf(r.entries, j.seq)],
              err |-> IF r.err = "EOF" THEN "" ELSE r.err]

\* openLatest that appends to the lowest-numbered segment.
openLowest(j) ==
    IF DOMAIN j.files = {} THEN newSegment(j)
    ELSE LET nums   == { ScanInt(nm, 0) : nm \in DOMAIN j.files }
             lowest == CHOOSE n \in nums : \A k \in nums : n <= k
             name   == segmentName(lowest)
             s      == scan([j EXCEPT !.segment = lowest], name)
         IN  IF s.err # "" THEN s
             ELSE [j   |-> [s.j EXCEPT !.current = name, !.writer = NewWriter,
                                       !.size = Len(s.j.files[name])],
                   err |-> ""]

\* Journal.openLatest
openLatest(j) ==
    IF DOMAIN j.files = {} THEN newSegment(j)
    ELSE LET latest == Latest(DOMAIN j.files)
             name   == segmentName(latest)
             s      == scan([j EXCEPT !.segment = latest], name)
         IN  IF s.err # "" THEN s
             ELSE [j   |-> [s.j EXCEPT !.current = name, !.writer = NewWriter,
                                       !.size = Len(s.j.files[name])],
                   err |-> ""]

\* WriteEntry with the size check made after the record is written.
WriteEntryRotateAfter(j, key, value, nonce) ==
    LET j1 == [j EXCEPT !.seq = @ + 1]
        w  == BufWrite(j1, Frame([Key |-> key, Value |-> value, Seq |-> j1.seq],
                                 j.enc, nonce), 0)
    IN  IF w.err # "" THEN [j |-> w.j, err |-> w.err, seq |-> 0]
        ELSE LET j2  == [w.j EXCEPT !.size = @ + w.n]
                 rot == IF j2.size >= j2.maxSize THEN newSegment(j2)
                        ELSE [j |-> j2, err |-> ""]
             IN  IF rot.err # "" THEN [j |-> rot.j, err |-> rot.err, seq |-> 0]
                 ELSE [j |-> rot.j, err |-> "", seq |-> j1.seq]

\* WriteEntry that stamps the entry with seq + 1 and leaves seq as it was.
WriteEntryStaleSeq(j, key, value, nonce) ==
    LET rot == IF j.size >= j.maxSize THEN newSegment(j) ELSE [j |-> j, err |-> ""]
    IN  IF rot.err # "" THEN [j |-> rot.j, err |-> rot.err, seq |-> 0]
        ELSE LET w == BufWrite(rot.j,
                               Frame([Key |-> key, Value |-> value, Seq |-> j.seq + 1],
                                     j.enc, nonce), 0)
             IN  IF w.err # "" THEN [j |-> w.j, err |-> w.err, seq |-> 0]
                 ELSE [j |-> [w.j EXCEPT !.size = @ + w.n], err |-> "", seq |-> j.seq + 1]

\* The body of Journal.Write, and of one round of WriteBatch's loop.
WriteEntry(j, key, value, nonce) ==
    LET j1  == [j EXCEPT !.seq = @ + 1]
        rot == IF j1.size >= j1.maxSize THEN newSegment(j1) ELSE [j |-> j1, err |-> ""]
    IN  IF rot.err # "" THEN [j |-> rot.j, err |-> rot.err, seq |-> 0]
        ELSE LET w == BufWrite(rot.j,
                               Frame([Key |-> key, Value |-> value, Seq |-> j1.seq],
                                     j.enc, nonce), 0)
             IN  IF w.err # "" THEN [j |-> w.j, err |-> w.err, seq |-> 0]
                 ELSE [j |-> [w.j EXCEPT !.size = @ + w.n], err |-> "", seq |-> j1.seq]

\* WriteBatch's loop with the rotation check made once more after the last
\* entry.
RECURSIVE BatchLoopRotatingLast(_, _, _, _, _)
BatchLoopRotatingLast(j, entries, nonces, i, seqs) ==
    IF i > Len(entries)
    THEN IF j.size >= j.maxSize
         THEN [j |-> newSegment(j).j, err |-> newSegment(j).err, seqs |-> seqs]
         ELSE [j |-> j, err |-> "", seqs |-> seqs]
    ELSE CHOOSE res \in
           { IF w.err # "" THEN [j |-> w.j, err |-> w.err, seqs |-> <<>>]
             ELSE BatchLoopRotatingLast(w.j, entries, nonces, i + 1, Append(seqs, w.seq))
             : w \in { WriteEntry(j, entries[i].Key, entries[i].Value, nonces[i]) } } : TRUE

\* Journal.WriteBatch's loop from entry i on; seqs are the sequences so far.
RECURSIVE BatchLoop(_, _, _, _, _)
BatchLoop(j, entries, nonces, i, seqs) ==
    IF i > Len(entries) THEN [j |-> j, err |-> "", seqs |-> seqs]
    ELSE CHOOSE res \in
           { IF w.err # "" THEN [j |-> w.j, err |-> w.err, seqs |-> <<>>]
             ELSE BatchLoop(w.j, entries, nonces, i + 1, Append(seqs, w.seq))
             : w \in { WriteEntry(j, entries[i].Key, entries[i].Value, nonces[i]) } } : TRUE

\* ------------------------------------------------------------------ inputs

\* The entries a caller passes (Seq is assigned by the journal): one with an
\* empty key and an empty value, one with neither empty.
Inputs == { [Key |-> <<>>, Value |-> <<>>], [Key |-> <<107>>, Value |-> <<118, 119>>] }

\* The batches a caller passes: up to MaxBatch entries.
Batches == UNION { [1..n -> Inputs] : n \in 0..MaxBatch }

\* The maxSize arguments given to New (0 selects the default).
MaxSizes == { 0, 25 }

\* The nonces one call may draw, one per entry.
NonceSeqs(n) == IF encryptor THEN [1..n -> Nonces] ELSE { [i \in 1..n |-> Zeros(NonceSize)] }

\* ----------------------------------------------------------------- actions

NoReplay == [pc |-> "idle", names |-> <<>>, idx |-> 0, out |-> <<>>, err |-> "", pre |-> <<>>,
             failAt |-> 0]

NoFault == [kind |-> "none"]

\* The goroutines that call into one journal at the same time.
Callers == { 1, 2 }

NoCall == [pc |-> "idle"]

\* A lock that makes no caller wait.
LockFree == TRUE

\* mu.Lock() returns: no reader holds the lock and no other writer does.
Lock == mu = 0 /\ owner = 0

\* mu.RLock() returns: no writer holds the lock.
RLock == owner = 0

Init ==
    /\ storageKind \in {"file", "mem"}
    /\ encryptor \in BOOLEAN
    /\ files = [nm \in {} |-> <<>>]
    /\ closed = {}
    /\ jstate = "none"
    /\ current = <<>>
    /\ writer = NewWriter
    /\ seq = 0
    /\ size = 0
    /\ maxSize = 0
    /\ segment = 0
    /\ mu = 0
    /\ rp = NoReplay
    /\ ret = [op |-> "", err |-> "", seqs |-> <<>>]
    /\ log = <<>>
    /\ firstInstance = TRUE
    /\ synced = "clean"
    /\ fault = NoFault
    /\ owner = 0
    /\ calls = [c \in Callers |-> NoCall]
    /\ partial = <<>>
    /\ unsynced = <<>>
    /\ durable = {}
    /\ rb = NoRing
    /\ rbmu = 0
    /\ requested = 0
    /\ added = <<>>
    /\ addRet = [dropped |-> 0, wasFull |-> FALSE]
    /\ iter = NoIter
    /\ broke = 0 - 1
    /\ sink = NoSink
    /\ order = <<>>
    /\ jcalls = <<>>
    /\ events = <<>>
    /\ sret = [op |-> "", err |-> "", before |-> NoRing]
    /\ run = NoRun
    /\ dedup = NoDedup
    /\ sweep = NoSweep
    /\ dcalls = [c \in Callers |-> NoCall]
    /\ dret = NoDret
    /\ received = 0
    /\ tally = [k \in DedupKeys |-> [passed |-> 0, dups |-> 0]]
    /\ swept = {}
    /\ nevents = 0
    /\ anySweep = FALSE
    /\ rl = NoLimiter
    /\ lcalls = [c \in Callers |-> NoCall]
    /\ lret = NoLret
    /\ passed = 0
    /\ lbegun = 0
    /\ dec = [called |-> FALSE, input |-> <<>>, err |-> "", data |-> <<>>]
    /\ srv = NoRequest
    /\ scalls = <<>>
    /\ chain = NoChain
    /\ inflight = NoAppends

\* The start for the packages that do not open the journal: one storage
\* stands for all.
InitMem == Init /\ storageKind = "mem" /\ ~encryptor

\* The journal's fields and the storage after a call on a live instance.
SetJournal(j) ==
    /\ files' = j.files
    /\ closed' = j.closed
    /\ current' = j.current
    /\ writer' = j.writer
    /\ seq' = j.seq
    /\ size' = j.size
    /\ maxSize' = j.maxSize
    /\ segment' = j.segment

\* The storage after a call that leaves no instance behind.
DropJournal(j) ==
    /\ files' = j.files
    /\ closed' = j.closed
    /\ current' = <<>>
    /\ writer' = NewWriter
    /\ seq' = 0
    /\ size' = 0
    /\ maxSize' = 0
    /\ segment' = 0

\* journal.New(storage, ms, opts...)
New(ms) ==
    /\ jstate = "none"
    /\ \E r \in { openLatest(NewJournal(storageKind, files, closed, encryptor,
                                        IF ms = 0 THEN DefaultMaxSize ELSE ms)) } :
          /\ IF r.err = "" THEN jstate' = "open" /\ SetJournal(r.j)
                           ELSE jstate' = "none" /\ DropJournal(r.j)
          /\ ret' = [op |-> "New", err |-> r.err, seqs |-> <<>>]
    /\ firstInstance' = (firstInstance /\ DOMAIN files = {})
    /\ rp' = NoReplay
    /\ UNCHANGED << storageKind, encryptor, mu, log, synced, fault >>
    /\ unsynced' = <<>>
    /\ UNCHANGED << beside, partial, durable >>

\* Journal.Write(key, value): mu.Lock() waits for the readers to leave.
Write(key, value) ==
    /\ jstate = "open"
    /\ Lock
    /\ seq < MaxSeq /\ Len(log) < MaxSeq
    /\ \E nonce \in NonceSeqs(1) :
       \E r \in { WriteEntry(J, key, value, nonce[1]) } :
          /\ SetJournal(r.j)
          /\ ret' = [op |-> "Write", err |-> r.err,
                     seqs |-> IF r.err = "" THEN <<r.seq>> ELSE <<>>]
          /\ log' = IF r.err = ""
                    THEN Append(log, [Key |-> key, Value |-> value, Seq |-> r.seq])
                    ELSE log
          /\ synced' = IF r.err = "" /\ synced = "clean" THEN "dirty" ELSE synced
          /\ unsynced' = IF r.err = ""
                         THEN Append(unsynced, [Key |-> key, Value |-> value, Seq |-> r.seq])
                         ELSE unsynced
    /\ rp' = NoReplay
    /\ UNCHANGED << storageKind, encryptor, jstate, mu, firstInstance, fault >>
    /\ UNCHANGED << beside, partial, durable >>

\* Journal.WriteBatch(entries)
WriteBatch(entries) ==
    /\ jstate = "open"
    /\ Lock
    /\ seq + Len(entries) <= MaxSeq /\ Len(log) + Len(entries) <= MaxSeq
    /\ \E nonces \in NonceSeqs(Len(entries)) :
       \E r \in { BatchLoop(J, entries, nonces, 1, <<>>) } :
          /\ SetJournal(r.j)
          /\ ret' = [op |-> "WriteBatch", err |-> r.err, seqs |-> r.seqs]
          /\ log' = IF r.err = ""
                    THEN log \o [i \in 1..Len(entries) |->
                                   [Key |-> entries[i].Key, Value |-> entries[i].Value,
                                    Seq |-> r.seqs[i]]]
                    ELSE log
          /\ synced' = IF r.err = "" /\ entries # <<>> /\ synced = "clean"
                       THEN "dirty" ELSE synced
          /\ unsynced' = IF r.err = ""
                         THEN unsynced \o [i \in 1..Len(entries) |->
                                             [Key |-> entries[i].Key,
                                              Value |-> entries[i].Value, Seq |-> r.seqs[i]]]
                         ELSE unsynced
          /\ partial' = IF r.err = "" THEN partial
                        ELSE [k \in 1..(r.j.seq - seq - 1) |->
                                [Key |-> entries[k].Key, Value |-> entries[k].Value,
                                 Seq |-> seq + k]]
    /\ rp' = NoReplay
    /\ UNCHANGED << storageKind, encryptor, jstate, mu, firstInstance, fault >>
    /\ UNCHANGED << beside, durable >>

\* Journal.Sync: Flush, then storage.Sync(current).
Sync ==
    /\ jstate = "open"
    /\ Lock
    /\ \E r \in { Flush(J) } :
          /\ SetJournal(r.j)
          /\ ret' = [op |-> "Sync", err |-> r.err, seqs |-> <<>>]
          /\ unsynced' = IF r.err = "" THEN <<>> ELSE unsynced
          /\ durable' = IF r.err = ""
                        THEN durable \cup { unsynced[i] : i \in 1..Len(unsynced) }
                        ELSE durable
    /\ rp' = NoReplay
    /\ synced' = IF synced = "dirty" THEN "clean" ELSE synced
    /\ UNCHANGED << storageKind, encryptor, jstate, mu, log, firstInstance, fault >>
    /\ UNCHANGED << beside, partial >>

\* Journal.Close: Flush, storage.Sync, closer.Close(); the caller drops the
\* instance afterwards.
Close ==
    /\ jstate = "open"
    /\ Lock
    /\ \E r \in { Flush(J) } :
          /\ DropJournal(CloseHandle(r.j))
          /\ ret' = [op |-> "Close", err |-> r.err, seqs |-> <<>>]
    /\ jstate' = "none"
    /\ rp' = NoReplay
    /\ synced' = IF synced = "dirty" THEN "tainted" ELSE synced
    /\ UNCHANGED << storageKind, encryptor, mu, log, firstInstance, fault >>
    /\ unsynced' = <<>>
    /\ UNCHANGED << beside, partial, durable >>

\* The process stops without Close: the instance is gone with what its
\* bufio.Writer still held; nothing is flushed and no handle is closed.
Crash ==
    /\ jstate = "open"
    /\ Lock
    /\ DropJournal(J)
    /\ jstate' = "none"
    /\ ret' = [op |-> "Crash", err |-> "", seqs |-> <<>>]
    /\ rp' = NoReplay
    /\ synced' = IF synced = "dirty" THEN "tainted" ELSE synced
    /\ unsynced' = <<>>
    /\ UNCHANGED << storageKind, encryptor, mu, log, firstInstance, fault >>
    /\ UNCHANGED << beside, partial, durable >>

\* Journal.Replay(fn), entry: mu.RLock(), storage.List(), sort.Strings(names).
\* fn records what it is given in rp.out; it returns an error from its k-th
\* invocation and nil from the others (k = 0: nil from all).
ReplayStart(k) ==
    /\ jstate = "open"
    /\ RLock
    /\ rp.pc # "run"
    /\ mu' = mu + 1
    /\ rp' = IF DOMAIN files = {}
             THEN [NoReplay EXCEPT !.pc = "done", !.pre = log, !.failAt = k]
             ELSE [pc |-> "run", names |-> SortStrings(DOMAIN files), idx |-> 1,
                   out |-> <<>>, err |-> "", pre |-> log, failAt |-> k]
    /\ UNCHANGED << storageKind, files, closed, encryptor, jstate, current, writer, seq,
                    size, maxSize, segment, ret, log, firstInstance, synced, fault >>
    /\ UNCHANGED << beside, partial, unsynced, durable >>

\* Replay with an fn that returns nil for every entry.
ReplayBegin == ReplayStart(0)

\* A loop that looks at fn's error only at the end of the segment.
DeliverStop(entries, out, failAt) ==
    [out |-> out \o entries,
     err |-> IF failAt > Len(out) /\ failAt <= Len(out) + Len(entries) THEN "ErrFn" ELSE ""]

\* The calls of fn in the inner loop of Replay, for the entries read from one
\* segment after out was delivered from earlier ones: fn is invoked entry by
\* entry, and its first error ends the loop.
Deliver(entries, out, failAt) ==
    IF failAt > Len(out) /\ failAt <= Len(out) + Len(entries)
    THEN [out |-> out \o SubSeq(entries, 1, failAt - Len(out)), err |-> "ErrFn"]
    ELSE [out |-> out \o entries, err |-> ""]

\* Journal.Replay(fn), one round of the loop over the names: Open, read and
\* deliver to the end of the segment; the call returns (mu.RUnlock()) on an
\* error and after the last name.
ReplaySegment ==
    /\ rp.pc = "run"
    /\ LET name == rp.names[rp.idx]
           last == rp.idx = Len(rp.names)
       IN  IF name \notin DOMAIN files
           THEN \* Open failed: continue
                /\ rp' = [rp EXCEPT !.idx = @ + 1, !.pc = IF last THEN "done" ELSE "run"]
                /\ mu' = IF last THEN mu - 1 ELSE mu
           ELSE \E r \in { ReadLoop(files[name], 0, encryptor, <<>>) } :
                \E d \in { Deliver(r.entries, rp.out, rp.failAt) } :
                  LET failed == d.err # "" \/ r.err # "EOF"
                  IN  /\ rp' = [rp EXCEPT !.out = d.out,
                                          !.err = IF d.err # "" THEN d.err
                                                  ELSE IF failed THEN r.err ELSE "",
                                          !.idx = @ + 1,
                                          !.pc = IF failed \/ last THEN "done" ELSE "run"]
                      /\ mu' = IF failed \/ last THEN mu - 1 ELSE mu
    /\ UNCHANGED << storageKind, files, closed, encryptor, jstate, current, writer, seq,
                    size, maxSize, segment, ret, log, firstInstance, synced, fault >>
    /\ UNCHANGED << beside, partial, unsynced, durable >>

\* Journal.WriteBatch(entries) as caller c runs it, one step per round of
\* its loop, with the exclusive lock held from entry to return.
BatchLock(c, entries) ==
    /\ jstate = "open"
    /\ calls[c].pc = "idle"
    /\ Lock
    /\ seq + Len(entries) <= MaxSeq /\ Len(log) + Len(entries) <= MaxSeq
    /\ owner' = c
    /\ \E nonces \in NonceSeqs(Len(entries)) :
          calls' = [calls EXCEPT ![c] = [pc |-> "loop", entries |-> entries,
                                         nonces |-> nonces, i |-> 1, seqs |-> <<>>]]
    /\ UNCHANGED << storageKind, files, closed, encryptor, jstate, current, writer, seq,
                    size, maxSize, segment, mu, rp, ret, log, firstInstance, synced, fault,
                    partial, unsynced, durable, outside >>

\* One round of the loop; an error returns (nil, err) and unlocks.
BatchRound(c) ==
    /\ owner = c
    /\ calls[c].pc = "loop"
    /\ calls[c].i <= Len(calls[c].entries)
    /\ LET cl == calls[c]
       IN  \E r \in { WriteEntry(J, cl.entries[cl.i].Key, cl.entries[cl.i].Value,
                                  cl.nonces[cl.i]) } :
             /\ SetJournal(r.j)
             /\ IF r.err # ""
                THEN /\ calls' = [calls EXCEPT ![c] = NoCall]
                     /\ owner' = 0
                     /\ ret' = [op |-> "WriteBatch", err |-> r.err, seqs |-> <<>>]
                     /\ rp' = NoReplay
                     /\ partial' = [k \in 1..Len(cl.seqs) |->
                                      [Key |-> cl.entries[k].Key,
                                       Value |-> cl.entries[k].Value, Seq |-> cl.seqs[k]]]
                ELSE /\ calls' = [calls EXCEPT ![c].i = @ + 1,
                                               ![c].seqs = Append(@, r.seq)]
                     /\ UNCHANGED << owner, ret, rp, partial >>
    /\ UNCHANGED << storageKind, encryptor, jstate, mu, log, firstInstance, synced, fault,
                    unsynced, durable, outside >>

\* The loop is over: return (seqs, nil) and unlock.
BatchReturn(c) ==
    /\ owner = c
    /\ calls[c].pc = "loop"
    /\ calls[c].i > Len(calls[c].entries)
    /\ LET cl == calls[c]
       IN  /\ ret' = [op |-> "WriteBatch", err |-> "", seqs |-> cl.seqs]
           /\ log' = log \o [k \in 1..Len(cl.entries) |->
                               [Key |-> cl.entries[k].Key, Value |-> cl.entries[k].Value,
                                Seq |-> cl.seqs[k]]]
           /\ synced' = IF cl.entries # <<>> /\ synced = "clean" THEN "dirty" ELSE synced
           /\ unsynced' = unsynced \o [k \in 1..Len(cl.entries) |->
                                         [Key |-> cl.entries[k].Key,
                                          Value |-> cl.entries[k].Value, Seq |-> cl.seqs[k]]]
    /\ calls' = [calls EXCEPT ![c] = NoCall]
    /\ owner' = 0
    /\ rp' = NoReplay
    /\ UNCHANGED << storageKind, files, closed, encryptor, jstate, current, writer, seq,
                    size, maxSize, segment, mu, firstInstance, fault, partial, durable,
                    outside >>

\* ------------------------------------------------------------------ damage
\* Damage done to a stored segment from outside the program: one byte of a
\* frame changed, or the tail of a segment cut off. The segments are whole
\* frames when it happens, and fault remembers where it fell.

\* The bit patterns a changed byte is XORed with.
Masks == { 1, 255 }

\* The frame of the whole-frame segment b in which offset off lies, counting
\* frames from idx at offset pos.
RECURSIVE FrameAt(_, _, _, _)
FrameAt(b, off, pos, idx) ==
    LET end == pos + 8 + Uint32(Slice(b, pos, pos + 4))
    IN  IF off < end \/ end >= Len(b)
        THEN [rec |-> idx, start |-> pos,
              field |-> IF off < pos + 4 THEN "len"
                        ELSE IF off < pos + 8 THEN "crc" ELSE "payload"]
        ELSE FrameAt(b, off, end, idx + 1)

\* The sequence numbers of the records of segment name from frame rec on.
SeqsFrom(name, rec) ==
    LET es == ReadLoop(files[name], 0, encryptor, <<>>).entries
    IN  { es[i].Seq : i \in rec..Len(es) }

FlipByte(name, off, mask) ==
    /\ fault = NoFault
    /\ mu = 0
    /\ writer.buf = <<>>
    /\ name \in DOMAIN files
    /\ off \in 0..(Len(files[name]) - 1)
    /\ files' = [files EXCEPT ![name][off + 1] = Xor8(@, mask)]
    /\ \E f \in { FrameAt(files[name], off, 0, 1) } :
          fault' = [kind |-> "flip", name |-> name, off |-> off, field |-> f.field,
                    rec |-> f.rec, partial |-> FALSE,
                    lost |-> SeqsFrom(name, f.rec)]
    /\ rp' = NoReplay
    /\ UNCHANGED << storageKind, closed, encryptor, jstate, current, writer, seq, size,
                    maxSize, segment, mu, ret, log, firstInstance, synced >>
    /\ UNCHANGED << beside, partial, unsynced, durable >>

\* Segment name is cut down to its first n bytes.
Truncate(name, n) ==
    /\ fault = NoFault
    /\ mu = 0
    /\ writer.buf = <<>>
    /\ name \in DOMAIN files
    /\ n \in 0..(Len(files[name]) - 1)
    /\ files' = [files EXCEPT ![name] = SubSeq(@, 1, n)]
    /\ \E f \in { FrameAt(files[name], n, 0, 1) } :
          fault' = [kind |-> "truncate", name |-> name, off |-> n, field |-> f.field,
                    rec |-> f.rec, partial |-> n > f.start,
                    lost |-> SeqsFrom(name, f.rec)]
    /\ rp' = NoReplay
    /\ UNCHANGED << storageKind, closed, encryptor, jstate, current, writer, seq, size,
                    maxSize, segment, mu, ret, log, firstInstance, synced >>
    /\ UNCHANGED << beside, partial, unsynced, durable >>

Next ==
    \/ \E ms \in MaxSizes : New(ms)
    \/ \E e \in Inputs : Write(e.Key, e.Value)
    \/ \E b \in Batches : WriteBatch(b)
    \/ Sync
    \/ Close
    \/ ReplayBegin
    \/ ReplaySegment

Spec == Init /\ [][Next]_vars

\* A first instance stores one batch; the storage is damaged once, at a
\* moment when nothing is buffered, and is then reopened (with the default
\* maxSize) and replayed.
NextFault ==
    \/ \E ms \in MaxSizes : (DOMAIN files = {} \/ ms = 0) /\ New(ms)
    \/ \E b \in Batches : firstInstance /\ log = <<>> /\ WriteBatch(b)
    \/ Close
    \/ ReplayBegin
    \/ ReplaySegment
    \/ \E name \in DOMAIN files : \E off \in 0..(Len(files[name]) - 1) :
          \E mask \in Masks : FlipByte(name, off, mask)
    \/ \E name \in DOMAIN files : \E n \in 0..(Len(files[name]) - 1) : Truncate(name, n)

SpecFault == Init /\ [][NextFault]_vars

\* One instance with concurrent callers: Write and Sync in one step each,
\* WriteBatch round by round.
\* The journal with one caller, and a process that may stop at any moment
\* between two calls; a journal opened on existing segments takes the small
\* segment limit, so that it rotates.
NextCrash ==
    \/ \E ms \in MaxSizes : (DOMAIN files = {} \/ ms = 25) /\ New(ms)
    \/ \E e \in Inputs : Write(e.Key, e.Value)
    \/ \E b \in Batches : WriteBatch(b)
    \/ Sync
    \/ Close
    \/ Crash
    \/ ReplayBegin
    \/ ReplaySegment

SpecCrash == Init /\ [][NextCrash]_vars

\* One instance whose caller replays with an fn that fails at its k-th entry.
FailAts == 0..MaxSeq

NextFn ==
    \/ \E ms \in MaxSizes : New(ms)
    \/ \E e \in Inputs : Write(e.Key, e.Value)
    \/ \E b \in Batches : WriteBatch(b)
    \/ Sync
    \/ \E k \in FailAts : ReplayStart(k)
    \/ ReplaySegment

SpecFn == Init /\ [][NextFn]_vars

\* ------------------------------------------------------- ring buffer calls

Caps == (0 - 1)..MaxCap

Vals == 0..2

\* The number of values after which the consumer of All() returns false from
\* yield; 0: it never does.
Takes == 0..MaxCap

\* rb.New(capacity)
rbNew(capacity) ==
    /\ rb = NoRing
    /\ rb' = NewRing(capacity)
    /\ requested' = capacity
    /\ UNCHANGED << rbmu, added, addRet, iter, broke >>
    /\ UNCHANGED exceptRing

\* RingBuffer.Add(val): mu.Lock() waits until no reader holds the lock.
Add(val) ==
    /\ rb # NoRing
    /\ rbLock(rbmu)
    /\ Len(added) < MaxAdds
    /\ \E r \in { AddTo(rb, val) } :
          /\ rb' = r.rb
          /\ addRet' = [dropped |-> r.dropped, wasFull |-> r.wasFull]
    /\ added' = Append(added, val)
    /\ iter' = NoIter
    /\ UNCHANGED << rbmu, requested, broke >>
    /\ UNCHANGED exceptRing

\* The function All() returns is called with a yield that returns false at its
\* k-th value: mu.RLock(), which waits while an Add stands at mu.Lock().
AllBegin(k) ==
    /\ rb # NoRing
    /\ iter.pc \notin {"run", "inAdd"}
    /\ rbmu' = rbmu + 1
    /\ iter' = [pc |-> "run", i |-> 0, out |-> <<>>, take |-> k, snap |-> rb,
                stopped |-> FALSE]
    /\ UNCHANGED << rb, requested, added, addRet, broke >>
    /\ UNCHANGED exceptRing

\* One round of the loop of All(): the loop condition, yield(buf[idx]), and the
\* return with the deferred RUnlock when yield returns false or the loop ends.
AllRound ==
    /\ iter.pc = "run"
    /\ IF iter.i < rb.len
       THEN LET out == Append(iter.out, rb.buf[idxAt(rb, iter.i) + 1])
            IN  IF Len(out) = iter.take
                THEN /\ iter' = [iter EXCEPT !.out = out, !.pc = "done", !.stopped = TRUE]
                     /\ rbmu' = AllReturn(rbmu)
                     /\ broke' = Len(added)
                ELSE /\ iter' = [iter EXCEPT !.out = out, !.i = @ + 1]
                     /\ UNCHANGED << rbmu, broke >>
       ELSE /\ iter' = [iter EXCEPT !.pc = "done"]
            /\ rbmu' = AllReturn(rbmu)
            /\ UNCHANGED broke
    /\ UNCHANGED << rb, requested, added, addRet >>
    /\ UNCHANGED exceptRing

NextRing ==
    \/ \E c \in Caps : rbNew(c)
    \/ \E v \in Vals : Add(v)
    \/ \E k \in Takes : AllBegin(k)
    \/ AllRound

SpecRing == Init /\ [][NextRing]_vars

\* The consumer of an All() iteration calls rb.Add(val) from the loop body,
\* after a value was yielded to it: it stands at rb.mu.Lock() of Add, with
\* the shared lock of its iteration held until yield returns.
YieldAdd(val) ==
    /\ iter.pc = "run"
    /\ Len(iter.out) >= 1
    /\ Len(added) < MaxAdds
    /\ iter' = [iter EXCEPT !.pc = "inAdd"]
    /\ UNCHANGED << rb, rbmu, requested, added, addRet, broke >>
    /\ UNCHANGED exceptRing

\* The ring buffer with a consumer that may call Add from inside the loop.
NextNested ==
    \/ \E c \in Caps : rbNew(c)
    \/ \E v \in Vals : Add(v)
    \/ \E k \in Takes : AllBegin(k)
    \/ AllRound
    \/ \E v \in Vals : YieldAdd(v)

SpecNested == Init /\ [][NextNested]_vars

\* --------------------------------------------------------------- sink calls

\* The names of the middlewares, by place of registration.
Names == << "A", "B", "C" >>

Kinds == {"pass", "stop", "dropNegative"}

\* The middleware lists given to WithMiddleware.
Chains ==
    UNION { { [i \in 1..n |-> [name |-> Names[i], kind |-> f[i]]] : f \in [1..n -> Kinds] }
            : n \in 0..Len(Names) }

\* The events given to Append: "t" with value -1 at 1000 and "hum" with value
\* 1 at 2000.
Evs == { event(<< 116 >>, 0 - 1, 1000), event(<< 104, 117, 109 >>, 1, 2000) }

BufSizes == {1, 2}

\* What a call on the sink's Journal returns.
JournalErrs == {"", "ErrJournal"}

\* sink.New(j, WithBufSize(size), WithMiddleware(middlewares...))
sinkNew(j, bufSize, middlewares) ==
    /\ sink = NoSink
    /\ sink' = [journal |-> j, buf |-> NewEventRing(bufSize),
                handler |-> buildChain(middlewares),
                bufSize |-> bufSize, middlewares |-> middlewares, closed |-> FALSE]
    /\ UNCHANGED << order, jcalls, events, sret, run >>
    /\ UNCHANGED exceptSink

\* Sink.Append(ev)
SinkAppend(ev, jerr) ==
    /\ sink # NoSink
    /\ Len(events) < MaxAppends
    /\ events' = Append(events, ev)
    /\ IF appendCheck(sink) # ""
       THEN /\ sret' = [op |-> "Append", err |-> appendCheck(sink), before |-> sink.buf]
            /\ order' = <<>>
            /\ UNCHANGED << sink, jcalls >>
       ELSE \E r \in { Invoke(sink.handler, ev, <<>>) } :
              /\ order' = r.order
              /\ IF r.reached
                 THEN \E a \in { appendToBuffer(sink, ev, jerr) } :
                        /\ sink' = a.sink
                        /\ jcalls' = jcalls \o a.calls
                        /\ sret' = [op |-> "Append", err |-> a.err, before |-> sink.buf]
                 ELSE /\ sret' = [op |-> "Append", err |-> "", before |-> sink.buf]
                      /\ UNCHANGED << sink, jcalls >>
    /\ UNCHANGED run
    /\ UNCHANGED exceptSink

\* Sink.Close(): closed.Store(true), flush()
SinkClose(jerr) ==
    /\ sink # NoSink
    /\ ~sink.closed
    /\ order' = <<>>
    /\ \E f \in { flush([sink EXCEPT !.closed = TRUE], jerr) } :
          /\ sink' = f.sink
          /\ jcalls' = jcalls \o f.calls
          /\ sret' = [op |-> "Close", err |-> f.err, before |-> sink.buf]
    /\ UNCHANGED << events, run >>
    /\ UNCHANGED exceptSink

NextSink ==
    \/ \E j \in BOOLEAN, bs \in BufSizes, c \in Chains : sinkNew(j, bs, c)
    \/ \E ev \in Evs, jerr \in JournalErrs : SinkAppend(ev, jerr)
    \/ \E jerr \in JournalErrs : SinkClose(jerr)

SpecSink == Init /\ [][NextSink]_vars

\* The journal.WriteBatch calls made so far.
Flushed ==
    Len(SelectSeq(jcalls, LAMBDA c : c.op = "WriteBatch"))

\* Sink.flush(), called by the tests.
SinkFlush(jerr) ==
    /\ sink # NoSink
    /\ Flushed < MaxFlushes
    /\ order' = <<>>
    /\ \E f \in { flush(sink, jerr) } :
          /\ sink' = f.sink
          /\ jcalls' = jcalls \o f.calls
          /\ sret' = [op |-> "flush", err |-> f.err, before |-> sink.buf]
    /\ UNCHANGED << events, run >>
    /\ UNCHANGED exceptSink

\* go s.Run(ctx): the ticker is started and the loop waits in select.
RunStart ==
    /\ sink # NoSink
    /\ run.pc = "none"
    /\ run' = [run EXCEPT !.pc = "running"]
    /\ UNCHANGED << sink, order, jcalls, events, sret >>
    /\ UNCHANGED exceptSink

\* cancel(): the context given to Run is cancelled, before Run is called or
\* while it runs.
Cancel ==
    /\ sink # NoSink
    /\ run.pc \in {"none", "running"}
    /\ ~run.cancelled
    /\ run' = [run EXCEPT !.cancelled = TRUE]
    /\ UNCHANGED << sink, order, jcalls, events, sret >>
    /\ UNCHANGED exceptSink

\* The select of Run takes <-t.C: flush(), and return of its error if it
\* fails. A tick may be ready when the context is cancelled, and select then
\* takes either.
RunTick(jerr) ==
    /\ run.pc = "running"
    /\ Flushed < MaxFlushes
    /\ \E f \in { flush(sink, jerr) } :
          /\ sink' = f.sink
          /\ jcalls' = jcalls \o f.calls
          /\ sret' = [op |-> "flush", err |-> f.err, before |-> sink.buf]
          /\ run' = IF f.err # ""
                    THEN [run EXCEPT !.pc = "returned", !.err = f.err]
                    ELSE [run EXCEPT !.ticks = @ + 1]
    /\ UNCHANGED << order, events >>
    /\ UNCHANGED exceptSink

\* The select of Run takes <-ctx.Done().
RunDone(jerr) ==
    /\ run.pc = "running"
    /\ run.cancelled
    /\ \E r \in { runDone(sink, jerr) } :
          /\ sink' = r.sink
          /\ jcalls' = jcalls \o r.calls
          /\ sret' = [op |-> "flush", err |-> flush(sink, jerr).err, before |-> sink.buf]
          /\ run' = [run EXCEPT !.pc = "returned", !.err = r.err, !.finals = @ + 1]
    /\ UNCHANGED << order, events >>
    /\ UNCHANGED exceptSink

NextRun ==
    \/ \E j \in BOOLEAN, bs \in BufSizes : sinkNew(j, bs, <<>>)
    \/ \E ev \in Evs, jerr \in JournalErrs : SinkAppend(ev, jerr)
    \/ \E jerr \in JournalErrs : SinkFlush(jerr)
    \/ \E jerr \in JournalErrs : SinkClose(jerr)
    \/ RunStart
    \/ Cancel
    \/ \E jerr \in JournalErrs : RunTick(jerr)
    \/ \E jerr \in JournalErrs : RunDone(jerr)

SpecRun == InitMem /\ [][NextRun]_vars

\* The k-th event given to Append by the concurrent callers: the events
\* differ in their timestamps.
NthEvent(k) == event(<< 116 >>, 1, k)

\* Caller c calls Sink.Append(ev): the checks of closed and journal; the
\* call returns their error, or stands before s.handler(ev).
AppendBegin(c) ==
    /\ sink # NoSink
    /\ inflight.calls[c].pc = "idle"
    /\ Len(events) < MaxAppends
    /\ LET ev == NthEvent(Len(events) + 1)
       IN  /\ events' = Append(events, ev)
           /\ IF appendCheck(sink) # ""
              THEN /\ sret' = [op |-> "Append", err |-> appendCheck(sink),
                               before |-> sink.buf]
                   /\ UNCHANGED inflight
              ELSE /\ inflight' = [inflight EXCEPT !.calls[c] = [pc |-> "passed", ev |-> ev]]
                   /\ UNCHANGED sret
    /\ UNCHANGED << sink, order, jcalls, run >>
    /\ UNCHANGED exceptAppend

\* The rest of the Append of caller c: s.handler(ev), which without
\* middlewares is s.appendToBuffer(ev), and the return of its error.
AppendEnd(c, jerr) ==
    /\ inflight.calls[c].pc = "passed"
    /\ LET ev == inflight.calls[c].ev
       IN  \E a \in { appendToBuffer(sink, ev, jerr) } :
             /\ sink' = a.sink
             /\ jcalls' = jcalls \o a.calls
             /\ sret' = [op |-> "Append", err |-> a.err, before |-> sink.buf]
             /\ inflight' = [calls    |-> [inflight.calls EXCEPT ![c] = [pc |-> "idle"]],
                             accepted |-> IF a.err = "" THEN inflight.accepted \cup {ev}
                                          ELSE inflight.accepted]
    /\ UNCHANGED << order, events, run >>
    /\ UNCHANGED exceptAppend

\* A sink with concurrent producers and a Run that is cancelled; the calls
\* on the journal succeed.
NextShutdown ==
    \/ \E bs \in BufSizes : sinkNew(TRUE, bs, <<>>)
    \/ \E c \in Callers : AppendBegin(c)
    \/ \E c \in Callers : AppendEnd(c, "")
    \/ RunStart
    \/ Cancel
    \/ RunTick("")
    \/ RunDone("")

SpecShutdown == InitMem /\ [][NextShutdown]_vars

\* ------------------------------------------------------ deduplicator calls

\* The intervals given to NewDeduplicator: none, and one tick.
Intervals == {0, 1}

\* The goroutine of Start is running.
Sweeping ==
    dedup.started /\ dedup.interval > 0

\* NewDeduplicator(interval)
NewDeduplicator(interval) ==
    /\ ~dedup.made
    /\ dedup' = [NoDedup EXCEPT !.made = TRUE, !.interval = interval]
    /\ UNCHANGED << sweep, dcalls, dret, received, tally, swept, nevents, anySweep >>
    /\ UNCHANGED exceptDedup

\* Deduplicator.Start(): returns at once when interval <= 0, starts the sweep
\* goroutine otherwise.
dedupStart ==
    /\ dedup.made
    /\ ~dedup.started
    /\ dedup' = [dedup EXCEPT !.started = TRUE]
    /\ UNCHANGED << sweep, dcalls, dret, received, tally, swept, nevents, anySweep >>
    /\ UNCHANGED exceptDedup

\* The ticker fires and m.Range begins: it will visit every key that is in
\* the map now.
SweepTick ==
    /\ Sweeping
    /\ sweep.pc = "idle"
    /\ sweep' = [pc |-> "range", todo |-> dedup.m, visited |-> {}, began |-> dedup.m]
    /\ anySweep' = TRUE
    /\ UNCHANGED << dedup, dcalls, dret, received, tally, swept, nevents >>
    /\ UNCHANGED exceptDedup

\* One call of the function given to Range: d.m.Delete(key).
SweepDelete(key) ==
    /\ sweep.pc = "range"
    /\ key \in sweep.todo
    /\ dedup' = [dedup EXCEPT !.m = Delete(@, key)]
    /\ sweep' = [sweep EXCEPT !.todo = @ \ {key}, !.visited = @ \cup {key}]
    /\ tally' = [tally EXCEPT ![key] = [passed |-> 0, dups |-> 0]]
    /\ swept' = swept \cup {key}
    /\ UNCHANGED << dcalls, dret, received, nevents, anySweep >>
    /\ UNCHANGED exceptDedup

\* Range has returned: d.count.Store(0), and the goroutine waits for the next
\* tick.
SweepStore ==
    /\ sweep.pc = "range"
    /\ sweep.todo = {}
    /\ dedup' = [dedup EXCEPT !.count = 0]
    /\ sweep' = NoSweep
    /\ UNCHANGED << dcalls, dret, received, tally, swept, nevents, anySweep >>
    /\ UNCHANGED exceptDedup

\* Caller c calls the handler of Deduplicator.Middleware() with an event that
\* carries key, up to the return or to LoadOrStore having stored the key. The
\* next handler returns nil. A key stored while Range is running and not
\* visited yet may be visited by it or not.
DedupCall(c, key) ==
    /\ dedup.made
    /\ dcalls[c].pc = "idle"
    /\ nevents < MaxEvents
    /\ nevents' = nevents + 1
    /\ IF key = ""
       THEN /\ received' = received + 1
            /\ tally' = [tally EXCEPT ![key].passed = @ + 1]
            /\ dret' = [key |-> key, err |-> "", forwarded |-> TRUE, afterSweep |-> FALSE]
            /\ UNCHANGED << dedup, sweep, dcalls, swept >>
       ELSE \E r \in { LoadOrStore(dedup.m, key) } :
              IF r.loaded
              THEN /\ dret' = [key |-> key, err |-> "ErrDuplicate", forwarded |-> FALSE,
                               afterSweep |-> key \in swept]
                   /\ tally' = [tally EXCEPT ![key].dups = @ + 1]
                   /\ UNCHANGED << dedup, sweep, dcalls, received, swept >>
              ELSE /\ dedup' = [dedup EXCEPT !.m = r.m]
                   /\ dcalls' = [dcalls EXCEPT ![c] = [pc |-> "stored", key |-> key,
                                                       afterSweep |-> key \in swept]]
                   /\ tally' = [tally EXCEPT ![key].passed = @ + 1]
                   /\ swept' = swept \ {key}
                   /\ \E seen \in BOOLEAN :
                         sweep' = IF seen /\ sweep.pc = "range" /\ key \notin sweep.visited
                                  THEN [sweep EXCEPT !.todo = @ \cup {key}]
                                  ELSE sweep
                   /\ UNCHANGED << dret, received >>
    /\ UNCHANGED anySweep
    /\ UNCHANGED exceptDedup

\* The rest of the call of caller c: d.count.Add(1) and return next(ev).
DedupForward(c) ==
    /\ dcalls[c].pc = "stored"
    /\ dedup' = [dedup EXCEPT !.count = @ + 1]
    /\ received' = received + 1
    /\ dret' = [key |-> dcalls[c].key, err |-> "", forwarded |-> TRUE,
                afterSweep |-> dcalls[c].afterSweep]
    /\ dcalls' = [dcalls EXCEPT ![c] = NoCall]
    /\ UNCHANGED << sweep, tally, swept, nevents, anySweep >>
    /\ UNCHANGED exceptDedup

NextDedup ==
    \/ \E i \in Intervals : NewDeduplicator(i)
    \/ dedupStart
    \/ SweepTick
    \/ \E key \in DedupKeys : SweepDelete(key)
    \/ SweepStore
    \/ \E c \in Callers, key \in DedupKeys : DedupCall(c, key)
    \/ \E c \in Callers : DedupForward(c)

\* The deduplicator alone: the journal is not opened, so one storage stands
\* for all.
InitDedup == Init /\ storageKind = "mem" /\ ~encryptor

SpecDedup == InitDedup /\ [][NextDedup]_vars

\* ------------------------------------------------------ rate limiter calls

\* The rates given to NewRateLimiter, in halves: 0, 4.5, 5 and 7 bytes a
\* second.
Rates == {0, 9, 10, 14}

\* The sensors of the events: "t" and "hum".
Sensors == { << 116 >>, << 104, 117, 109 >> }

\* The events given to the handler: 4 and 6 bytes when serialized.
LimiterEvs == { event(sn, 1, 1) : sn \in Sensors }

\* The halves of a token that flow in between two steps.
Elapsed == 1..3

\* NewRateLimiter(bytesPerSec)
NewRateLimiter(bytesPerSec) ==
    /\ ~rl.made
    /\ rl' = NewLimiter(bytesPerSec)
    /\ UNCHANGED << lcalls, lret, passed, lbegun >>
    /\ UNCHANGED exceptLimiter

\* Time passes: the limiter's tokens grow with it.
Elapse(d) ==
    /\ rl.made
    /\ rl.limit > 0
    /\ rl.tokens < rl.burst * Scale
    /\ rl' = [rl EXCEPT !.tokens = advance(rl, d)]
    /\ UNCHANGED << lcalls, lret, passed, lbegun >>
    /\ UNCHANGED exceptLimiter

\* Caller c calls the handler of RateLimiter.Middleware() with ev, up to the
\* return of AllowN.
LimiterCall(c, ev) ==
    /\ rl.made
    /\ lcalls[c].pc = "idle"
    /\ lbegun < MaxLimiterCalls
    /\ lbegun' = lbegun + 1
    /\ LET n == Msgsize(ev)
           r == AllowN(rl, n)
       IN  /\ rl' = [rl EXCEPT !.tokens = r.tokens]
           /\ lcalls' = [lcalls EXCEPT ![c] = [pc |-> IF r.ok THEN "allowed" ELSE "denied",
                                               n |-> n]]
    /\ UNCHANGED << lret, passed >>
    /\ UNCHANGED exceptLimiter

\* The rest of the call of caller c: DroppedCounter.Add(1) and return
\* ErrRateLimited, or return next(ev); the next handler returns nil.
LimiterReturn(c) ==
    /\ lcalls[c].pc \in {"allowed", "denied"}
    /\ IF lcalls[c].pc = "denied"
       THEN /\ rl' = [rl EXCEPT !.dropped = @ + 1]
            /\ lret' = [n |-> lcalls[c].n, err |-> "ErrRateLimited", forwarded |-> FALSE]
            /\ UNCHANGED passed
       ELSE /\ passed' = passed + 1
            /\ lret' = [n |-> lcalls[c].n, err |-> "", forwarded |-> TRUE]
            /\ UNCHANGED rl
    /\ lcalls' = [lcalls EXCEPT ![c] = NoCall]
    /\ UNCHANGED lbegun
    /\ UNCHANGED exceptLimiter

NextLimiter ==
    \/ \E r \in Rates : NewRateLimiter(r)
    \/ \E d \in Elapsed : Elapse(d)
    \/ \E c \in Callers, ev \in LimiterEvs : LimiterCall(c, ev)
    \/ \E c \in Callers : LimiterReturn(c)

SpecLimiter == InitMem /\ [][NextLimiter]_vars

\* ------------------------------------------- deduplicator, limiter and sink

\* The middlewares run registers, in its order: the deduplicator's, then the
\* rate limiter's.
RunMiddlewares ==
    << [name |-> "dedup", kind |-> "dedup"], [name |-> "ratelimit", kind |-> "ratelimit"] >>

\* The idempotency keys of the events given to the chain; "" is no key.
ChainKeys == {"", "a", "b"}

\* The events given to Append: 4 and 6 bytes when serialized, with and
\* without an idempotency key.
ChainEvs ==
    { [event(sn, 1, 1) EXCEPT !.IdempotencyID = k] : sn \in Sensors, k \in ChainKeys }

\* The rates given to NewRateLimiter, in halves: 5 and 7 bytes a second.
ChainRates == {10, 14}

\* s.handler(ev) for a handler h made of the deduplicator's and the rate
\* limiter's middlewares, on the state st of deduplicator, limiter and sink:
\* the deduplicator stores the key and calls next, or returns ErrDuplicate;
\* the limiter takes the tokens and calls next, or counts a drop and returns
\* ErrRateLimited; the empty handler is s.appendToBuffer, whose overflow
\* Write returns jerr.
RECURSIVE chainInvoke(_, _, _, _)
chainInvoke(h, st, ev, jerr) ==
    IF h = <<>>
    THEN LET a == appendToBuffer(st.sink, ev, jerr)
         IN  [st |-> [st EXCEPT !.sink = a.sink], calls |-> a.calls, err |-> a.err]
    ELSE IF Head(h).kind = "dedup"
    THEN IF ev.IdempotencyID = "" THEN chainInvoke(Tail(h), st, ev, jerr)
         ELSE LET r == LoadOrStore(st.dedup.m, ev.IdempotencyID)
              IN  IF r.loaded THEN [st |-> st, calls |-> <<>>, err |-> "ErrDuplicate"]
                  ELSE chainInvoke(Tail(h),
                                   [st EXCEPT !.dedup.m = r.m, !.dedup.count = @ + 1],
                                   ev, jerr)
    ELSE LET r == AllowN(st.rl, Msgsize(ev))
         IN  IF ~r.ok
             THEN [st |-> [st EXCEPT !.rl.dropped = @ + 1], calls |-> <<>>,
                   err |-> "ErrRateLimited"]
             ELSE chainInvoke(Tail(h), [st EXCEPT !.rl.tokens = r.tokens], ev, jerr)

\* run: NewDeduplicator, NewRateLimiter and sink.New with both middlewares;
\* no sweep falls into the time looked at.
chainNew(bufSize, bytesPerSec) ==
    /\ sink = NoSink /\ ~dedup.made /\ ~rl.made
    /\ dedup' = [NoDedup EXCEPT !.made = TRUE, !.started = TRUE]
    /\ rl' = NewLimiter(bytesPerSec)
    /\ sink' = [journal |-> TRUE, buf |-> NewEventRing(bufSize),
                handler |-> buildChain(RunMiddlewares), bufSize |-> bufSize,
                middlewares |-> RunMiddlewares, closed |-> FALSE]
    /\ UNCHANGED << order, jcalls, events, sret, run >>
    /\ UNCHANGED << sweep, dcalls, dret, received, tally, swept, nevents, anySweep >>
    /\ UNCHANGED << lcalls, lret, passed, lbegun >>
    /\ UNCHANGED << journalVars, ringVars, cipherVars, serverVars, chainVars,
       appendVars >>

\* Sink.Append(ev) on the sink run has made.
chainAppend(ev, jerr) ==
    /\ sink # NoSink /\ dedup.made /\ rl.made
    /\ Len(events) < MaxAppends
    /\ events' = Append(events, ev)
    /\ \E r \in { IF appendCheck(sink) # ""
                   THEN [st |-> [dedup |-> dedup, rl |-> rl, sink |-> sink],
                         calls |-> <<>>, err |-> appendCheck(sink)]
                   ELSE chainInvoke(sink.handler,
                                    [dedup |-> dedup, rl |-> rl, sink |-> sink], ev, jerr) } :
          /\ dedup' = r.st.dedup
          /\ rl' = r.st.rl
          /\ sink' = r.st.sink
          /\ jcalls' = jcalls \o r.calls
          /\ sret' = [op |-> "Append", err |-> r.err, before |-> sink.buf]
          /\ chain' = [accepted |-> IF r.err = "" /\ ev.IdempotencyID # ""
                                    THEN chain.accepted \cup {ev.IdempotencyID}
                                    ELSE chain.accepted,
                       key      |-> ev.IdempotencyID]
    /\ UNCHANGED << order, run >>
    /\ UNCHANGED << sweep, dcalls, dret, received, tally, swept, nevents, anySweep >>
    /\ UNCHANGED << lcalls, lret, passed, lbegun >>
    /\ UNCHANGED << journalVars, ringVars, cipherVars, serverVars, appendVars >>

NextChain ==
    \/ \E bs \in BufSizes, r \in ChainRates : chainNew(bs, r)
    \/ \E ev \in ChainEvs, jerr \in JournalErrs : chainAppend(ev, jerr)
    \/ \E d \in Elapsed : Elapse(d)

SpecChain == InitMem /\ [][NextChain]_vars

\* --------------------------------------------------------- transport calls

Methods == {"POST", "GET"}

ContentTypes == {"application/x-ndjson", "application/jsonl", "application/json"}

\* The lines of a body: an event in JSON, an empty line, a line that is not
\* JSON.
Lines ==
    { [kind |-> "json", ev |-> e] : e \in Evs }
    \cup { [kind |-> "empty", ev |-> event(<<>>, 0, 0)], [kind |-> "bad", ev |-> event(<<>>, 0, 0)] }

Bodies ==
    UNION { [1..n -> Lines] : n \in 0..MaxBody }

\* What Append of the server's Sink returns.
SinkErrs == {"", "ErrDuplicate", "ErrRateLimited", "ErrSinkClosed"}

\* Server.handleBatch up to its loop over the events: the checks of method,
\* content type and body, and the parse of every line. The server keeps
\* nothing from one request to the next, so one request is followed.
BatchRequest(method, ct, body) ==
    /\ srv.pc = "idle"
    /\ scalls' = <<>>
    /\ LET p == scanLines(body, 1, <<>>)
           status == IF method # "POST" THEN 405
                     ELSE IF ct \notin {"application/x-ndjson", "application/jsonl"} THEN 415
                     ELSE IF Len(body) = 0 THEN 400
                     ELSE IF ~p.ok THEN 400
                     ELSE IF p.events = <<>> THEN 202
                     ELSE 0
       IN  srv' = [pc |-> IF status = 0 THEN "loop" ELSE "done", body |-> body,
                   events |-> IF status \in {0, 202} THEN p.events ELSE <<>>,
                   i |-> 1, status |-> status]
    /\ UNCHANGED exceptServer

\* One round of the loop: s.sink.Append(ev) returns err.
BatchAppend(err) ==
    /\ srv.pc = "loop"
    /\ scalls' = Append(scalls, [ev |-> srv.events[srv.i], err |-> err])
    /\ LET a == afterAppend(err)
       IN  srv' = IF a.stop
                  THEN [srv EXCEPT !.pc = "done", !.status = a.status]
                  ELSE IF srv.i = Len(srv.events)
                  THEN [srv EXCEPT !.pc = "done", !.status = 202, !.i = @ + 1]
                  ELSE [srv EXCEPT !.i = @ + 1]
    /\ UNCHANGED exceptServer

NextServer ==
    \/ \E m \in Methods, ct \in ContentTypes, body \in Bodies : BatchRequest(m, ct, body)
    \/ \E err \in SinkErrs : BatchAppend(err)

SpecServer == InitMem /\ [][NextServer]_vars

\* ----------------------------------------------------------- decrypt calls

\* The plaintexts sealed for Decrypt.
Plains == { <<>>, << 1 >>, << 1, 2 >> }

\* The inputs given to Decrypt: runs of one byte of every length up to two
\* bytes past NonceSize + TagSize, and every prefix of a sealed text.
Ciphertexts ==
    { [i \in 1..n |-> b] : n \in 0..(NonceSize + TagSize + 2), b \in {0, 3, 255} }
    \cup UNION { { SubSeq(Encrypt(pl, nonce), 1, n) : n \in 0..(NonceSize + Len(pl) + TagSize) }
                 : pl \in Plains, nonce \in Nonces }

\* AESGCMEncryptor.Decrypt(ciphertext), called on its own.
DecryptCall(ciphertext) ==
    /\ \E r \in { Decrypt(ciphertext) } :
          dec' = [called |-> TRUE, input |-> ciphertext, err |-> r.err, data |-> r.data]
    /\ UNCHANGED exceptCipher

NextDecrypt ==
    \E ct \in Ciphertexts : DecryptCall(ct)

SpecDecrypt == InitMem /\ [][NextDecrypt]_vars

NextConc ==
    \/ \E ms \in MaxSizes : New(ms)
    \/ \E e \in Inputs : Write(e.Key, e.Value)
    \/ Sync
    \/ \E c \in Callers : \E b \in Batches : BatchLock(c, b)
    \/ \E c \in Callers : BatchRound(c)
    \/ \E c \in Callers : BatchReturn(c)

SpecConc == Init /\ [][NextConc]_vars

\* -------------------------------------------------------------- properties

\* C1: on a single instance opened on empty storage, the sequence numbers
\* that successful Write and WriteBatch calls return are 1, 2, 3, ... in call
\* order and, inside a batch, in input order.
C1_SequencesFromOne ==
    firstInstance => \A i \in 1..Len(log) : log[i].Seq = i

C1_Witness ==
    /\ firstInstance
    /\ ret.op = "WriteBatch" /\ ret.err = "" /\ ret.seqs = <<2, 3>>
    /\ Len(log) = 3

\* C2: across restarts (Sync, Close, New on the same storage) the sequence
\* numbers returned keep increasing by one, also from the last one before a
\* restart to the first one after it.
C2_ContiguousAcrossRestarts ==
    synced # "tainted" => \A i \in 1..Len(log) : i > 1 => log[i].Seq = log[i - 1].Seq + 1

\* C3: writes followed by Sync, Close and a reopen: the Replay of the
\* reopened instance delivers exactly the entries written, in write order,
\* with the same key, value and sequence.
C3_ReplayRoundTrip ==
    (jstate = "open" /\ ret.op = "New" /\ synced = "clean" /\ rp.pc = "done")
        => (rp.err = "" /\ rp.out = log)

\* C4: Replay hands fn strictly increasing sequence numbers over the whole
\* log, across segment boundaries.
C4_ReplayIncreasing ==
    \A i \in 1..(Len(rp.out) - 1) : rp.out[i].Seq < rp.out[i + 1].Seq

C4_Witness ==
    /\ rp.pc = "done" /\ rp.err = ""
    /\ Len(rp.names) >= 2 /\ Len(rp.out) >= 3
    /\ ~firstInstance

\* C5: every entry whose Write or WriteBatch returned successfully before
\* Replay was called is delivered to fn by that Replay, with or without a
\* Sync in between.
C5_ReplaySeesReturnedWrites ==
    rp.pc = "done" =>
        \A i \in 1..Len(rp.pre) : \E k \in 1..Len(rp.out) : rp.out[k] = rp.pre[i]

\* C6: while a Replay is in progress a Write, WriteBatch or Sync can
\* complete.
C6_ReplayAdmitsWriters ==
    rp.pc = "run" =>
        ENABLED (\/ Sync
                 \/ \E e \in Inputs : Write(e.Key, e.Value)
                 \/ \E b \in Batches : WriteBatch(b))

\* The entries of the log outside the frames the damage reached.
Undamaged == SelectSeq(log, LAMBDA e : e.Seq \notin fault.lost)

\* The damage fell in the highest-numbered segment.
InLatest == fault.name = segmentName(Latest(DOMAIN files))

\* C7: a segment cut inside a record's header or payload reads as a clean end
\* of that segment: Replay delivers the complete records, goes on and
\* returns no error, and New's scan of the active segment ends without error.
C7_PartialRecordTolerated ==
    (fault.kind = "truncate" /\ fault.partial) =>
        /\ rp.pc = "done" => (rp.err = "" /\ rp.out = Undamaged)
        /\ (ret.op = "New" /\ InLatest) => ret.err = ""

\* C8 as stated: after any single byte of a stored frame (length field, crc
\* field or payload) is changed, the next Replay fails with ErrBadChecksum.
C8_AnyByteBadChecksum ==
    (fault.kind = "flip" /\ rp.pc = "done") => rp.err = "ErrBadChecksum"

\* C8: after any single byte of a stored frame's crc field or payload is
\* changed, the next Replay delivers the records before that frame and fails
\* with ErrBadChecksum; after a byte of the length field is changed it fails
\* with ErrBadChecksum or with ErrUnexpectedEOF.
C8_CrcOrPayloadBadChecksum ==
    (fault.kind = "flip" /\ rp.pc = "done") =>
        /\ \A i \in 1..Len(rp.out) : rp.out[i].Seq \notin fault.lost
        /\ fault.field \in {"crc", "payload"} => rp.err = "ErrBadChecksum"
        /\ fault.field = "len" => rp.err \in {"ErrBadChecksum", "ErrUnexpectedEOF"}

C8_Witness ==
    /\ fault.kind = "flip" /\ fault.field = "payload" /\ fault.rec = 2
    /\ rp.pc = "done" /\ rp.err = "ErrBadChecksum" /\ Len(rp.out) = 1

\* C9: New on a storage whose highest-numbered segment holds a record with a
\* checksum mismatch fails with ErrBadChecksum, returns no journal and leaves
\* every stored segment as it was.
C9_NewRefusesBadChecksum ==
    [][ ((\E ms \in MaxSizes : New(ms))
           /\ fault.kind = "flip" /\ fault.field \in {"crc", "payload"} /\ InLatest)
        => (ret'.err = "ErrBadChecksum" /\ jstate' = "none" /\ files' = files) ]_vars

C9_Witness ==
    /\ fault.kind = "flip" /\ fault.field \in {"crc", "payload"} /\ InLatest
    /\ ret.op = "New" /\ ret.err = "ErrBadChecksum" /\ jstate = "none"

\* The active segment is the highest-numbered one in the storage.
ActiveIsLatest ==
    jstate = "open" => (current \in DOMAIN files
                        /\ current = segmentName(Latest(DOMAIN files)))

\* A segment that has a successor keeps its bytes.
SealedUntouched ==
    \A nm \in DOMAIN files :
        (\E k \in DOMAIN files : ScanInt(k, 0) > ScanInt(nm, 0)) => files'[nm] = files[nm]

\* C10: one segment is active, the highest-numbered one, and no byte is
\* appended to a segment once its successor exists, through every Write,
\* WriteBatch, Sync, Close and reopen.
C10_OneActiveSegment ==
    []ActiveIsLatest /\ [][SealedUntouched]_vars

C10_Witness ==
    /\ jstate = "open" /\ ~firstInstance
    /\ Cardinality(DOMAIN files) >= 2
    /\ ret.op = "Write" /\ ret.err = ""
    /\ \E nm \in DOMAIN files : Len(files[nm]) > 0 /\ nm # current

\* The sequences of a batch are a block: each is one more than the one before.
IsBlock(s) == \A i \in 2..Len(s) : s[i] = s[i - 1] + 1

\* A returning WriteBatch returns a block that lies above every sequence
\* returned before it.
BatchReturnsBlock ==
    \A c \in Callers :
        BatchReturn(c) =>
            /\ IsBlock(ret'.seqs)
            /\ \A k \in 1..Len(log) : \A i \in 1..Len(ret'.seqs) : log[k].Seq < ret'.seqs[i]

\* No sequence is returned twice.
NoSequenceTwice ==
    \A i, k \in 1..Len(log) : i # k => log[i].Seq # log[k].Seq

\* C11: with concurrent Write and WriteBatch callers on one instance, the
\* sequences one WriteBatch returns are a contiguous ascending block in
\* input order, no sequence returned to another caller lies inside it, and
\* no two calls return the same sequence.
C11_BatchBlockUnderConcurrency ==
    []NoSequenceTwice /\ [][BatchReturnsBlock]_vars

\* One caller's batch returned <<1, 2>> and the other caller is inside a batch
\* of its own that was given 3.
C11_Witness ==
    /\ ret.op = "WriteBatch" /\ ret.err = "" /\ ret.seqs = <<1, 2>>
    /\ \E c \in Callers : calls[c].pc = "loop" /\ calls[c].seqs = <<3>>

\* C12: WriteBatch with an empty batch returns an empty result and no error
\* and leaves sequence counter, active segment, writer, size and stored bytes
\* as they were, also when size >= maxSize.
C12_EmptyBatchUntouched ==
    [][ WriteBatch(<<>>) =>
          /\ ret'.err = "" /\ ret'.seqs = <<>>
          /\ UNCHANGED << files, closed, current, writer, seq, size, maxSize, segment >>
      ]_vars

\* An empty batch has returned on a journal whose active segment is full.
C12_Witness ==
    /\ jstate = "open" /\ size >= maxSize
    /\ ret.op = "WriteBatch" /\ ret.err = "" /\ ret.seqs = <<>>

\* C13: when the i-th entry of a batch fails, WriteBatch returns an error
\* and the entries before it stay in the log under the sequences given to
\* them: a Replay after a Sync delivers them.
C13_PartialBatchStays ==
    (partial # <<>> /\ ret.op = "Sync" /\ rp.pc = "done") =>
        \A k \in 1..Len(partial) : \E m \in 1..Len(rp.out) : rp.out[m] = partial[k]

\* C14: when Sync has returned nil, every entry that Write or WriteBatch
\* returned before that call is delivered by every later Replay that runs to its
\* end, by the same instance and by one opened after a Close or after a stop
\* without Close.
C14_SyncIsBarrier ==
    rp.pc = "done" =>
        \A e \in durable : \E k \in 1..Len(rp.out) :
            /\ rp.out[k].Seq = e.Seq
            /\ rp.out[k].Key = e.Key
            /\ rp.out[k].Value = e.Value

\* A replay by an instance opened after a stop without Close that lost a
\* returned entry and kept a synced one.
C14_Witness ==
    /\ rp.pc = "done"
    /\ durable # {}
    /\ synced = "tainted"
    /\ ~firstInstance
    /\ Len(log) > Cardinality(durable)
    /\ Len(rp.out) = Cardinality(durable)

\* The entries that Replay finds in storage, segment by segment in sorted order.
RECURSIVE Stored(_, _)
Stored(names, i) ==
    IF i > Len(names) THEN <<>>
    ELSE ReadLoop(files[names[i]], 0, encryptor, <<>>).entries \o Stored(names, i + 1)

\* C15: when fn returns an error on the k-th entry it is given, Replay returns
\* that error, fn has been invoked k times, and no further entry is delivered.
C15_FnErrorAborts ==
    (rp.failAt > 0 /\ Len(rp.out) >= rp.failAt) =>
        /\ rp.pc = "done"
        /\ rp.err = "ErrFn"
        /\ Len(rp.out) = rp.failAt

\* fn failed at the first entry of the first segment while that segment and a
\* second one held further entries.
C15_Witness ==
    /\ rp.pc = "done"
    /\ rp.err = "ErrFn"
    /\ rp.failAt = 1
    /\ Len(rp.names) = 2
    /\ rp.idx = 2
    /\ Len(Stored(rp.names, 1)) = 3

\* The m newest of the values in s, newest first.
Newest(s, m) ==
    [k \in 1..m |-> s[Len(s) - k + 1]]

\* C16: Add on a buffer of capacity C stores the value; while fewer than C
\* values were held it reports wasFull = false, and from then on every Add
\* reports wasFull = true and returns the oldest held value, so that the k-th
\* Add (k > C) returns the (k-C)-th value ever added.
C16_AddEvictsOldest ==
    (rb # NoRing /\ added # <<>>) =>
        LET n == Len(added)
            c == Len(rb.buf)
        IN  /\ rb.buf[((rb.pos - 1 + c) % c) + 1] = added[n]
            /\ addRet.wasFull = (n > c)
            /\ n <= c => rb.len = n
            /\ n > c => addRet.dropped = added[n - c]

\* The fifth Add on a buffer of capacity 3 returned the second value, which
\* differs from the others held.
C16_Witness ==
    /\ Len(rb.buf) = 3
    /\ Len(added) = 5
    /\ addRet.wasFull
    /\ addRet.dropped = added[2]
    /\ added[2] # added[1] /\ added[2] # added[3] /\ added[2] # added[5]

\* C17: after n Add calls on a buffer of capacity C, an All() iteration that
\* runs to its end yields the min(n, C) values added last, newest first.
C17_AllNewestFirst ==
    (iter.pc = "done" /\ ~iter.stopped) =>
        LET n == Len(added)
            c == Len(rb.buf)
        IN  iter.out = Newest(added, IF n < c THEN n ELSE c)

\* Capacity 3 and five values added: the iteration gave the fifth, the fourth
\* and the third, and these differ.
C17_Witness ==
    /\ iter.pc = "done" /\ ~iter.stopped
    /\ Len(rb.buf) = 3
    /\ Len(added) = 5
    /\ iter.out = << added[5], added[4], added[3] >>
    /\ added[5] # added[3]
    /\ added[3] # added[2]

\* C18: an All() iteration that its consumer ends after k values has released
\* the lock and left slots, write index and used count as they were, and a full
\* iteration after a following Add gives what it gives without the early end.
C18_EarlyBreakLeavesRing ==
    /\ (iter.pc = "done" /\ iter.stopped) =>
           /\ rbmu = 0
           /\ rb = iter.snap
           /\ Len(iter.out) = iter.take
           /\ ENABLED (\E v \in Vals : Add(v)) \/ Len(added) = MaxAdds
    /\ (broke >= 0 /\ iter.pc = "done" /\ ~iter.stopped) =>
           iter.out = Newest(added, IF Len(added) < Len(rb.buf) THEN Len(added)
                                                               ELSE Len(rb.buf))

\* A full iteration over a wrapped buffer of capacity 3, after an iteration
\* over the full buffer was ended early and an Add followed.
C18_Witness ==
    /\ broke = 3
    /\ iter.pc = "done" /\ ~iter.stopped
    /\ Len(iter.out) = 3
    /\ Len(added) = 4

\* Between two states of a ring buffer the capacity stays and used does not
\* fall.
RingStep ==
    rb # NoRing => (Len(rb'.buf) = Len(rb.buf) /\ rb'.len >= rb.len)

\* The shape of a ring buffer that rb.New has made.
RingInv ==
    rb # NoRing =>
        /\ Len(rb.buf) >= 1
        /\ Len(rb.buf) = (IF requested < 1 THEN 1 ELSE requested)
        /\ 0 <= rb.len /\ rb.len <= Len(rb.buf)
        /\ 0 <= rb.pos /\ rb.pos < Len(rb.buf)

\* C19: a ring buffer has capacity >= 1, a requested capacity below 1 being
\* promoted to 1; the capacity never changes; 0 <= used <= capacity;
\* 0 <= write index < capacity; used never decreases.
C19_RingInvariants == []RingInv /\ [][RingStep]_vars

\* A buffer asked for with capacity 0 that has wrapped.
C19_Witness ==
    /\ rb # NoRing
    /\ requested = 0
    /\ Len(rb.buf) = 1
    /\ rb.len = 1
    /\ Len(added) = 3

\* The place of the first middleware in mws that does not call next for ev;
\* Len(mws) + 1 when every one does.
FirstStop(mws, ev) ==
    IF \E i \in 1..Len(mws) : ~CallsNext(mws[i], ev)
    THEN CHOOSE i \in 1..Len(mws) :
            /\ ~CallsNext(mws[i], ev)
            /\ \A k \in 1..(i - 1) : CallsNext(mws[k], ev)
    ELSE Len(mws) + 1

\* C20: with middlewares registered in the order A, B, C, one Append invokes A,
\* B, C in that order and then the buffer-append, each once; when a middleware
\* returns without calling next, no later middleware and no buffer-append runs
\* for that event.
C20_ChainOrder ==
    (sret.op = "Append" /\ sret.err \notin {"ErrSinkClosed", "ErrJournalIsNil"}) =>
        LET mws == sink.middlewares
            ev  == events[Len(events)]
            st  == FirstStop(mws, ev)
        IN  IF st > Len(mws)
            THEN order = [i \in 1..(Len(mws) + 1) |->
                            IF i <= Len(mws) THEN mws[i].name ELSE "appendToBuffer"]
            ELSE /\ order = [i \in 1..st |-> mws[i].name]
                 /\ sink.buf = sret.before
                 /\ sret.err = ""

\* An Append that ran A, B, C and the buffer-append after an Append that B
\* stopped.
C20_Witness ==
    /\ sret.op = "Append"
    /\ order = << "A", "B", "C", "appendToBuffer" >>
    /\ sink.middlewares[1].kind = "pass"
    /\ sink.middlewares[2].kind = "dropNegative"
    /\ Len(events) = 2
    /\ events[1].Value < 0
    /\ sink.buf.len = 1

\* No call of the deduplicator's handler is in progress.
NoDedupCall ==
    \A c \in Callers : dcalls[c].pc = "idle"

\* C21: from one removal of a non-empty key by a sweep to the next, exactly one
\* of the events carrying the key is forwarded to the next handler, the one
\* whose insert came first, also when calls race, and every other one fails
\* with Duplicate; an event with an empty key is forwarded and not tracked.
C21_OneEventPerKey ==
    /\ \A k \in DedupKeys \ {""} :
          /\ tally[k].passed <= 1
          /\ (tally[k].passed + tally[k].dups >= 1) => (tally[k].passed = 1)
          /\ (tally[k].passed = 1) <=> (k \in dedup.m)
    /\ "" \notin dedup.m
    /\ tally[""].dups = 0
    /\ dret.err \in {"none", "", "ErrDuplicate"}
    /\ dret.forwarded <=> (dret.err = "")
    /\ (dret.err # "none" /\ dret.key = "") => dret.forwarded
    /\ (NoDedupCall /\ ~anySweep) =>
          /\ received = tally[""].passed + tally["a"].passed + tally["b"].passed
                            + tally["c"].passed
          /\ received + tally["a"].dups + tally["b"].dups + tally["c"].dups = nevents

\* Events with the keys a, b, a, a, c and no sweep: three reached the next
\* handler and two failed with Duplicate.
C21_Witness ==
    /\ NoDedupCall
    /\ ~anySweep
    /\ tally["a"] = [passed |-> 1, dups |-> 2]
    /\ tally["b"] = [passed |-> 1, dups |-> 0]
    /\ tally["c"] = [passed |-> 1, dups |-> 0]
    /\ received = 3
    /\ nevents = 5

\* What every state between the steps of the sweep and of the callers keeps: a
\* key that a sweep deleted and that no event has stored since is not
\* tracked, the last event handled was forwarded if its key was such a key,
\* and a deduplicator whose interval is <= 0 never sweeps.
SweepInv ==
    /\ swept \cap dedup.m = {}
    /\ dret.afterSweep => (dret.forwarded /\ dret.err = "")
    /\ \A c \in Callers : dcalls[c].pc = "stored" => dcalls[c].key \in dedup.m \cup swept
    /\ sweep.pc = "range" => sweep.began \subseteq (sweep.visited \cup sweep.todo)
    /\ (dedup.interval <= 0) =>
          /\ ~anySweep
          /\ sweep = NoSweep
          /\ swept = {}
          /\ ~dret.afterSweep

\* What every step keeps: the step that ends a sweep has deleted every key
\* that was tracked when the sweep began and leaves the count at 0; with an
\* interval <= 0 a tracked key stays tracked and no further event carrying it
\* is forwarded.
SweepStep ==
    /\ (sweep.pc = "range" /\ sweep'.pc = "idle") =>
          /\ sweep.began \subseteq sweep.visited
          /\ dedup'.count = 0
    /\ \A k \in DedupKeys :
          (k \in sweep'.visited /\ k \notin sweep.visited) => k \notin dedup'.m
    /\ (dedup.made /\ dedup.interval <= 0) =>
          \A k \in dedup.m :
              /\ k \in dedup'.m
              /\ tally'[k].passed = tally[k].passed
              /\ tally'[k].dups >= tally[k].dups

\* C22: each sweep removes every key that was tracked and resets the count to
\* 0, so that an event whose key was seen before the sweep is forwarded again
\* after it; with an interval <= 0 no sweep ever runs and a key, once
\* inserted, is rejected as Duplicate for ever.
C22_SweepForgets ==
    []SweepInv /\ [][SweepStep]_vars

\* An event with key a was forwarded, a sweep deleted a and ended, a second
\* event with key a was forwarded, and a third one failed with Duplicate.
C22_Witness ==
    /\ NoDedupCall
    /\ sweep.pc = "idle"
    /\ anySweep
    /\ dret.key = "a"
    /\ dret.err = "ErrDuplicate"
    /\ tally["a"] = [passed |-> 1, dups |-> 1]
    /\ nevents = 3
    /\ received = 2
    /\ dedup.m = {"a"}

\* C23: Count() equals the number of keys tracked in the map in every state
\* where no call of the handler and no sweep is in progress.
C23_CountIsTracked ==
    (dedup.made /\ NoDedupCall /\ sweep.pc = "idle") =>
        dedup.count = Cardinality(dedup.m)

\* What every state keeps: the bucket holds at least nothing and at most the
\* rate, the dropped counter counts the calls that returned RateLimited, and
\* a call returns nil and forwards, or returns RateLimited and does not.
LimiterInv ==
    /\ rl.tokens >= 0
    /\ rl.tokens <= rl.limit
    /\ rl.tokens <= rl.burst * Scale
    /\ lret.err \in {"none", "", "ErrRateLimited"}
    /\ lret.forwarded <=> (lret.err = "")
    /\ LET running == Cardinality({ c \in Callers : lcalls[c].pc # "idle" })
       IN  passed + rl.dropped + running = lbegun

\* What every step keeps: a call that begins is granted exactly when the
\* bucket holds the serialized size of its event, and then the bucket loses
\* that many tokens, and none otherwise; a call that returns forwards the
\* event when it was granted, and adds one to the dropped counter and fails
\* with RateLimited when it was not.
LimiterStep ==
    \A c \in Callers :
        /\ (lcalls[c].pc = "idle" /\ lcalls'[c].pc # "idle") =>
              LET n == lcalls'[c].n
              IN  /\ \E ev \in LimiterEvs : n = Len(MarshalMsg(ev))
                  /\ IF rl.tokens >= n * Scale
                     THEN lcalls'[c].pc = "allowed" /\ rl'.tokens = rl.tokens - n * Scale
                     ELSE lcalls'[c].pc = "denied" /\ rl'.tokens = rl.tokens
                  /\ rl'.dropped = rl.dropped
                  /\ passed' = passed
        /\ (lcalls[c].pc = "allowed" /\ lcalls'[c].pc = "idle") =>
              /\ passed' = passed + 1
              /\ rl' = rl
              /\ lret' = [n |-> lcalls[c].n, err |-> "", forwarded |-> TRUE]
        /\ (lcalls[c].pc = "denied" /\ lcalls'[c].pc = "idle") =>
              /\ passed' = passed
              /\ rl'.dropped = rl.dropped + 1
              /\ rl'.tokens = rl.tokens
              /\ lret' = [n |-> lcalls[c].n, err |-> "ErrRateLimited", forwarded |-> FALSE]

\* C24: an event of serialized size n is forwarded iff the bucket holds at
\* least n tokens at that moment, and then exactly n tokens are taken;
\* otherwise it is not forwarded, the call fails with RateLimited, the
\* dropped counter goes up by exactly 1 and no tokens are taken. The token
\* count never exceeds the rate and never goes below 0.
C24_TokenBucket ==
    []LimiterInv /\ [][LimiterStep]_vars

\* With 7 bytes a second: an event of 4 bytes was forwarded, two events were
\* refused with 3 tokens or fewer in the bucket, and after a refill an event
\* of 4 bytes was forwarded and left half a token.
C24_Witness ==
    /\ rl.burst = 7
    /\ lbegun = 4
    /\ passed = 2
    /\ rl.dropped = 2
    /\ lret = [n |-> 4, err |-> "", forwarded |-> TRUE]
    /\ rl.tokens = 1

\* What a step that is a call of Append keeps when the sink is closed or has
\* no journal.
AppendRefusal ==
    (Len(events') = Len(events) + 1) =>
        /\ sret'.op = "Append"
        /\ sink.closed => sret'.err = "ErrSinkClosed"
        /\ (~sink.closed /\ ~sink.journal) => sret'.err = "ErrJournalIsNil"
        /\ (~sink.closed /\ sink.journal) => sret'.err \notin {"ErrSinkClosed", "ErrJournalIsNil"}
        /\ (sink.closed \/ ~sink.journal) =>
              /\ order' = <<>>
              /\ sink' = sink
              /\ jcalls' = jcalls

\* C25: Append on a closed sink fails with SinkClosed, and on an open sink
\* with no journal with JournalNil; the closed check comes first, and in both
\* cases no middleware runs, the ring buffer is unchanged and the journal is
\* not called.
C25_AppendRefused ==
    [][AppendRefusal]_vars

\* An Append on a closed sink that has no journal and three middlewares,
\* after an Append on the open sink.
C25_Witness ==
    /\ sret.op = "Append"
    /\ sret.err = "ErrSinkClosed"
    /\ sink.closed
    /\ ~sink.journal
    /\ Len(sink.middlewares) = 3
    /\ Len(events) = 2

\* The journal.Write calls made so far, in order.
Writes ==
    SelectSeq(jcalls, LAMBDA c : c.op = "Write")

\* No middleware of the sink rejects an event.
AllPass ==
    \A i \in DOMAIN sink.middlewares : sink.middlewares[i].kind = "pass"

\* The sink is open, has a journal and no middleware that rejects.
Spilling ==
    /\ sink # NoSink
    /\ sink.journal
    /\ ~sink.closed
    /\ AllPass

\* After n Appends the Write calls are max(0, n - C), and the i-th carries
\* the i-th appended event.
SpillInv ==
    Spilling =>
        LET C == Len(sink.buf.buf)
            n == Len(events)
        IN  /\ Len(Writes) = IF n > C THEN n - C ELSE 0
            /\ \A i \in 1..Len(Writes) :
                  Writes[i].entries =
                      << [Key   |-> fmtKey(events[i].Sensor, events[i].UnixTimestamp),
                          Value |-> MarshalMsg(events[i])] >>

\* The k-th Append makes no call on the journal when k <= C and one Write of
\* the (k-C)-th event when k > C.
SpillStep ==
    (Spilling /\ Len(events') = Len(events) + 1) =>
        LET C == Len(sink.buf.buf)
            k == Len(events')
        IN  IF k <= C
            THEN jcalls' = jcalls
            ELSE /\ Len(jcalls') = Len(jcalls) + 1
                 /\ jcalls'[Len(jcalls')].op = "Write"
                 /\ jcalls'[Len(jcalls')].evs = << events[k - C] >>
                 /\ jcalls'[Len(jcalls')].entries = << Entry(events[k - C]) >>
                 /\ SubSeq(jcalls', 1, Len(jcalls)) = jcalls

\* C26: with buffer capacity C and no middleware rejection, the k-th Append
\* issues no journal.Write when k <= C, and when k > C exactly one, before it
\* returns, carrying the serialized (k-C)-th appended event under the key
\* sensor_<name>{ts=<ts>} of that event; after n Appends the number of Write
\* calls is max(0, n - C).
C26_OverflowSpill ==
    []SpillInv /\ [][SpillStep]_vars

\* Capacity 1 and three Appends: the first two events were written, the
\* first under the key sensor_hum{ts=2000}.
C26_Witness ==
    /\ Spilling
    /\ Len(sink.buf.buf) = 1
    /\ Len(events) = 3
    /\ Len(Writes) = 2
    /\ events[1] # events[2]
    /\ Writes[1].entries[1].Key = << 115, 101, 110, 115, 111, 114, 95, 104, 117, 109,
                                     123, 116, 115, 61, 50, 48, 48, 48, 125 >>
    /\ Writes[2].evs = << events[2] >>

\* What a step that submits a batch keeps: the batch is the entries of the
\* events held, newest first, the sink's buffer and the calls before are as
\* they were, and a flush that follows a flush submits what that one did.
FlushStep ==
    (Len(jcalls') = Len(jcalls) + 1 /\ jcalls'[Len(jcalls')].op = "WriteBatch") =>
        LET b == jcalls'[Len(jcalls')]
            n == Len(events)
            C == Len(sink.buf.buf)
            h == IF n < C THEN n ELSE C
        IN  /\ sink'.buf = sink.buf
            /\ events' = events
            /\ SubSeq(jcalls', 1, Len(jcalls)) = jcalls
            /\ Len(b.entries) = sink.buf.len
            /\ ~sink.closed => b.entries = [i \in 1..h |-> Entry(events[n + 1 - i])]
            /\ (sret.op \in {"flush", "Close"} /\ sret.err # "ErrJournalIsNil") =>
                  /\ jcalls[Len(jcalls)].op = "WriteBatch"
                  /\ b.entries = jcalls[Len(jcalls)].entries

\* C27: flush passes to one journal.WriteBatch call exactly the events held
\* in the ring buffer, newest first, and leaves the ring buffer unchanged; a
\* second flush with no Append in between submits the same events again.
C27_FlushKeepsBuffer ==
    [][FlushStep]_vars

\* Capacity 2, three Appends of which the first two differ, then two flushes:
\* both batches are the third and the second event.
C27_Witness ==
    /\ sret.op = "flush"
    /\ Len(events) = 3
    /\ events[1] # events[2]
    /\ Len(jcalls) = 3
    /\ jcalls[1].op = "Write"
    /\ jcalls[2].op = "WriteBatch"
    /\ jcalls[3] = jcalls[2]
    /\ jcalls[3].evs = << events[3], events[2] >>
    /\ sink.buf.len = 2

\* C28: when the context passed to Run is cancelled, Run marks the sink
\* closed, performs exactly one final flush, and returns the context's error.
C28_RunCancelled ==
    (run.pc = "returned" /\ run.cancelled) =>
        /\ sink.closed
        /\ run.finals = 1
        /\ run.err = "context.Canceled"

\* What a step that returns from Run keeps: when select took the cancelled
\* context, the sink is closed, one flush was made on the buffer as it was,
\* and Run returns the error of that flush, or the context's error when the
\* flush returned nil; when select took a tick, Run returns the error of the
\* tick's flush.
RunReturn ==
    (run.pc = "running" /\ run'.pc = "returned") =>
        IF run'.finals = run.finals + 1
        THEN /\ run.cancelled
             /\ run.finals = 0
             /\ sink'.closed
             /\ sink'.buf = sink.buf
             /\ sret'.op = "flush"
             /\ run'.err = IF sret'.err # "" THEN sret'.err ELSE "context.Canceled"
             /\ IF sink.journal
                THEN /\ Len(jcalls') = Len(jcalls) + 1
                     /\ jcalls'[Len(jcalls')].op = "WriteBatch"
                     /\ jcalls'[Len(jcalls')].evs = flushBatch(sink.buf, 0)
                     /\ sret'.err \in JournalErrs
                ELSE /\ jcalls' = jcalls
                     /\ sret'.err = "ErrJournalIsNil"
        ELSE /\ run'.err = sret'.err
             /\ run'.err \in {"ErrJournal", "ErrJournalIsNil"}
             /\ sink'.closed = sink.closed

\* C28, amended: when Run's select takes the cancelled context, Run marks the
\* sink closed, performs exactly one final flush, and returns the error of
\* that flush if it failed and the context's error otherwise; Run returns in
\* no other way than this or with the error of a tick's flush.
C28_RunCancelledAmended ==
    /\ [](run.finals <= 1)
    /\ []((run.pc = "returned") <=> (run.err # ""))
    /\ []((run.pc = "returned" /\ run.err = "context.Canceled") =>
              (run.cancelled /\ run.finals = 1 /\ sink.closed))
    /\ [][RunReturn]_vars

\* Run was cancelled with one event held and its last flush failed: the sink
\* is closed and Run returned the journal's error.
C28_Witness ==
    /\ run.pc = "returned"
    /\ run.cancelled
    /\ run.finals = 1
    /\ run.ticks = 1
    /\ run.err = "ErrJournal"
    /\ sink.closed
    /\ sink.buf.len = 1
    /\ Len(jcalls) = 2

\* C29: Decrypt of any input shorter than nonce size plus tag size (12 + 16 =
\* 28 bytes) fails with CiphertextTooShort.
C29_ShortCiphertext ==
    (dec.called /\ Len(dec.input) < NonceSize + TagSize) => dec.err = "ErrCiphertextShort"

\* The events of the JSON lines of a body, in the order of the lines.
RECURSIVE JsonEvents(_)
JsonEvents(body) ==
    IF body = <<>> THEN <<>>
    ELSE IF Head(body).kind = "json" THEN << Head(body).ev >> \o JsonEvents(Tail(body))
    ELSE JsonEvents(Tail(body))

\* What every state of a batch request keeps: the Append calls made are the
\* parsed events in input order, one call each; only the last call may have
\* failed with anything but Duplicate; a request ended with 429 exactly when
\* its last Append failed with RateLimited, and with 202 only after every
\* event was given to Append.
BatchInv ==
    /\ Len(scalls) <= Len(srv.events)
    /\ \A k \in 1..Len(scalls) : scalls[k].ev = srv.events[k]
    /\ \A k \in 1..(Len(scalls) - 1) : scalls[k].err \in {"", "ErrDuplicate"}
    /\ srv.pc \in {"loop", "done"} /\ srv.events # <<>> => srv.events = JsonEvents(srv.body)
    /\ srv.pc = "loop" =>
          /\ Len(scalls) = srv.i - 1
          /\ srv.i <= Len(srv.events)
          /\ \A k \in 1..Len(scalls) : scalls[k].err \in {"", "ErrDuplicate"}
    /\ srv.pc = "done" =>
          /\ (srv.status = 429) <=>
                (scalls # <<>> /\ scalls[Len(scalls)].err = "ErrRateLimited")
          /\ (srv.status = 202) =>
                /\ Len(scalls) = Len(srv.events)
                /\ \A k \in 1..Len(scalls) : scalls[k].err \in {"", "ErrDuplicate"}
          /\ (srv.status \in {400, 405, 415}) => scalls = <<>>

\* What every step keeps: the calls made on the sink are never taken back
\* while the request lasts, a round after a Duplicate goes on with the next
\* event, and no call follows a RateLimited.
BatchStep ==
    /\ srv.pc = "loop" =>
          /\ Len(scalls') = Len(scalls) + 1
          /\ SubSeq(scalls', 1, Len(scalls)) = scalls
          /\ scalls'[Len(scalls')].ev = srv.events[Len(scalls) + 1]
          /\ (scalls'[Len(scalls')].err = "ErrDuplicate" /\ srv.i < Len(srv.events)) =>
                (srv'.pc = "loop" /\ srv'.i = srv.i + 1)
          /\ (scalls'[Len(scalls')].err = "ErrRateLimited") =>
                (srv'.pc = "done" /\ srv'.status = 429)
    /\ srv.pc = "done" => (scalls' = scalls /\ srv' = srv)

\* C30: batch ingest appends the parsed events to the sink in input order; an
\* Append failing with Duplicate is skipped and processing continues with the
\* next event; an Append failing with RateLimited stops processing with status
\* 429, the remaining events are never appended and the events appended
\* before it stay appended.
C30_BatchIngest ==
    []BatchInv /\ [][BatchStep]_vars

\* A body of four events: the first was a Duplicate, the second was
\* appended, the third was rate limited and the fourth was not given to
\* Append; status 429.
C30_Witness ==
    /\ srv.pc = "done"
    /\ srv.status = 429
    /\ Len(srv.events) = 4
    /\ Len(scalls) = 3
    /\ scalls[1].err = "ErrDuplicate"
    /\ scalls[2].err = ""
    /\ scalls[3].err = "ErrRateLimited"
    /\ srv.events[1] # srv.events[2]

\* The bytes of segment nm as the instance sees them: what the storage holds
\* and, for the active segment, what the bufio.Writer holds after it.
SegmentBytes(nm) ==
    IF nm = current THEN files[nm] \o writer.buf ELSE files[nm]

\* The entries of all segments in the order of their numbers.
RECURSIVE EntriesOf(_, _)
EntriesOf(names, i) ==
    IF i > Len(names) THEN <<>>
    ELSE ReadLoop(SegmentBytes(names[i]), 0, encryptor, <<>>).entries
            \o EntriesOf(names, i + 1)

\* The segments of the first instance on an empty storage: each is a run of
\* whole records, the records of all segments are the entries written, the
\* bytes before the last record of a segment are fewer than maxSize, a
\* segment that is not the active one holds maxSize bytes or more, and size
\* is the length of the active segment.
SegmentsInv ==
    (firstInstance /\ jstate = "open") =>
        /\ \A nm \in DOMAIN files :
              LET b == SegmentBytes(nm)
              IN  /\ ReadLoop(b, 0, encryptor, <<>>).err = "EOF"
                  /\ b # <<>> => FrameAt(b, Len(b) - 1, 0, 1).start < maxSize
                  /\ nm # current => Len(b) >= maxSize
        /\ EntriesOf(SortStrings(DOMAIN files), 1) = log
        /\ size = Len(SegmentBytes(current))

\* A Write that returns a sequence has moved to a new segment exactly when
\* size >= maxSize held at its start; the segment it left holds what it held,
\* flushed, and that is maxSize bytes or more; the record is the only content
\* added, to the segment that is active afterwards. A Write that returns an
\* error has made no segment.
RotationStep ==
    \A e \in Inputs :
        Write(e.Key, e.Value) =>
            IF ret'.err = ""
            THEN /\ (segment' = segment + 1) <=> (size >= maxSize)
                 /\ segment' \in {segment, segment + 1}
                 /\ current' = segmentName(segment')
                 /\ IF size >= maxSize
                    THEN /\ files'[current] = files[current] \o writer.buf
                         /\ Len(files'[current]) >= maxSize
                         /\ files'[current'] = <<>>
                         /\ size' = Len(writer'.buf)
                    ELSE /\ files' = files
                         /\ Len(writer'.buf) > Len(writer.buf)
                         /\ SubSeq(writer'.buf, 1, Len(writer.buf)) = writer.buf
                         /\ size' = size + (Len(writer'.buf) - Len(writer.buf))
            ELSE /\ DOMAIN files' = DOMAIN files
                 /\ segment' = segment
                 /\ current' = current

\* C31: Write rotates to a new segment exactly when the active segment's
\* size is >= maxSize at the start of the call, before the record is written:
\* every record lies wholly inside one segment, a segment exceeds maxSize by
\* at most the record that crossed the threshold, and every sealed segment
\* has size >= maxSize.
C31_RotationBeforeWrite ==
    []SegmentsInv /\ [][RotationStep]_vars

\* Two records of 24 and 27 bytes share a segment that now exceeds 25 bytes
\* by the second record only, and the third Write has left it for a new one.
C31_Witness ==
    /\ firstInstance /\ jstate = "open" /\ ~encryptor
    /\ maxSize = 25
    /\ ret.op = "Write" /\ ret.err = "" /\ ret.seqs = <<3>>
    /\ segment = 2
    /\ Len(files[segmentName(1)]) = 51
    /\ Len(log) = 3

\* C32: a Write or WriteBatch that returns an error consumes no sequence
\* number: the sequence counter is after the call what it was before it, so
\* the next successful write returns one more than the last sequence
\* returned before the failure.
C32_FailedCallKeepsSeq ==
    [][ ( /\ \/ \E e \in Inputs : Write(e.Key, e.Value)
             \/ \E b \in Batches : WriteBatch(b)
          /\ ret'.err # "" ) => seq' = seq ]_vars

\* C33: when New has opened a journal on existing segments, the sequence
\* counter it recovered from the active segment is the largest sequence
\* stored in any segment, whatever the previous instance left behind, so no
\* sequence already on storage is issued again.
C33_RecoveredSeqIsLargest ==
    (jstate = "open" /\ ret.op = "New" /\ ret.err = "") =>
        seq = MaxSeqOf(EntriesOf(SortStrings(DOMAIN files), 1), 0)

\* What a journal on a FileStorage does after Close and reopen: a Sync that
\* follows the Writes returns nil, and a Replay after it delivers every
\* entry written, the new ones included.
ReopenedSyncs(kind) ==
    (storageKind = kind /\ ~firstInstance /\ jstate = "open" /\ ret.op = "Sync") =>
        /\ ret.err = ""
        /\ rp.pc = "done" => rp.out = log

\* C34: the journal behaves on a MemStorage as it does on a FileStorage:
\* after Close and reopen on the same storage, a Write followed by Sync
\* succeeds and the new entry is delivered by Replay.
C34_MemMirrorsFile ==
    ReopenedSyncs("file") /\ ReopenedSyncs("mem")

\* While an iteration runs it holds the shared lock, the buffer is the one
\* it began on, and what it has yielded are the newest values of that
\* buffer, newest first.
SnapshotInv ==
    iter.pc = "run" =>
        /\ rbmu > 0
        /\ rb = iter.snap
        /\ Len(iter.out) = iter.i
        /\ iter.i <= rb.len
        /\ iter.out = Newest(added, iter.i)

\* No Add takes effect while an iteration runs.
SnapshotStep ==
    iter.pc = "run" => (rb' = rb /\ added' = added)

\* C35: under concurrent Add calls, one All() iteration yields the
\* newest-first contents of the ring buffer as they were at a single instant:
\* no Add takes effect between the first and the last value yielded by that
\* iteration.
C35_IterationIsSnapshot ==
    []SnapshotInv /\ [][SnapshotStep]_vars

\* An iteration over a wrapped buffer of capacity 3 has yielded two of its
\* three values; a fifth Add is waiting for it to end.
C35_Witness ==
    /\ iter.pc = "run"
    /\ Len(rb.buf) = 3
    /\ Len(added) = 4
    /\ iter.out = << added[4], added[3] >>
    /\ added[4] # added[3]
    /\ ~ENABLED (\E v \in Vals : Add(v))

\* A consumer that stands in Add holds the shared lock of its iteration.
NestedInv ==
    iter.pc = "inAdd" => (rbmu > 0 /\ ~ENABLED (\E v \in Vals : Add(v)))

\* A consumer that stands in Add stays there, and the buffer stays as it is.
NestedStep ==
    iter.pc = "inAdd" =>
        (iter' = iter /\ rb' = rb /\ added' = added /\ rbmu' = rbmu /\ addRet' = addRet)

\* C36: if the consumer of an All() iteration calls Add on the same ring
\* buffer from inside the loop body, that Add never returns: the iteration
\* holds the shared lock and Add waits for the exclusive lock.
C36_AddInsideAllBlocks ==
    []NestedInv /\ [][NestedStep]_vars

\* The consumer called Add after the first of two values of a buffer that
\* has room for a third: no step is possible.
C36_Witness ==
    /\ iter.pc = "inAdd"
    /\ Len(iter.out) = 1
    /\ Len(rb.buf) = 3 /\ rb.len = 2
    /\ Len(added) = 2
    /\ rbmu = 1
    /\ ~ENABLED NextNested

\* C37: a key is tracked by the deduplicator only for events the rest of the
\* chain accepted: with the chain deduplicator, rate limiter, buffer-append,
\* every key in the map is the key of an event Append accepted, and Duplicate
\* is the answer only to an event whose key an accepted event carried, so an
\* event rejected downstream can be submitted again.
C37_KeyTrackedOnlyIfAccepted ==
    /\ dedup.m \subseteq chain.accepted
    /\ (sret.op = "Append" /\ sret.err = "ErrDuplicate") => chain.key \in chain.accepted

\* C38: if Sink.Append returns an error, the sink's staging state is
\* unchanged: the event was not stored in the ring buffer and no event held
\* before was removed from it.
C38_FailedAppendKeepsBuffer ==
    (sret.op = "Append" /\ sret.err # "") => sink.buf = sret.before

\* An Append made after Run has returned fails with ErrSinkClosed.
AppendAfterRun ==
    (run.pc = "returned" /\ \E ev \in Evs, jerr \in JournalErrs : SinkAppend(ev, jerr)) =>
        sret'.err = "ErrSinkClosed"

\* C40: whenever Run has returned, for whatever reason (cancellation or a
\* failed periodic flush), the sink is closed: every later Append fails with
\* SinkClosed, so no event is accepted that no flush will ever pick up.
C40_ReturnedRunIsClosed ==
    [](run.pc = "returned" => sink.closed) /\ [][AppendAfterRun]_vars

\* The events handed to journal.Write or journal.WriteBatch so far.
Handed ==
    UNION { { jcalls[k].evs[i] : i \in 1..Len(jcalls[k].evs) } : k \in 1..Len(jcalls) }

\* C39: no accepted event is lost at shutdown: for any interleaving of
\* concurrent Append calls with cancellation and the final flush, once Run
\* has returned and the Append calls in flight have returned, every event
\* for which Append returned success was handed to journal.Write or
\* journal.WriteBatch (the journal calls succeed).
C39_NoAcceptedEventLost ==
    (run.pc = "returned" /\ \A c \in Callers : inflight.calls[c].pc = "idle") =>
        inflight.accepted \subseteq Handed

====
